---- MODULE Spec2Model ----
(***************************************************************************)
(* Model of the battlelayer connection runtime: the packet codec of        *)
(* conn/packet.rs, the framed socket of conn/socket.rs, the request        *)
(* channel of conn/respondable.rs and the connection process of            *)
(* conn/connection.rs.                                                     *)
(*                                                                         *)
(* Bytes are integers 0..255.  A u32 that travels as a size is an integer; *)
(* the raw u32 of a PacketSequence is kept as its three bit fields         *)
(* (bit 31, bit 30, bits 29..0), which is a bijection with the u32 values. *)
(***************************************************************************)
EXTENDS Integers, Sequences, FiniteSets, TLC

(***************************************************************************)
(* Program constants, conn/packet.rs lines 6-13.                           *)
(***************************************************************************)
PACKET_MAX_SIZE == 16384

PACKET_MAX_WORDS == 256

PACKET_HEADER_SIZE == 12

PACKET_WORD_MIN_SIZE == 5

PACKET_WORD_MAX_SIZE == PACKET_MAX_SIZE - (PACKET_HEADER_SIZE + PACKET_WORD_MIN_SIZE)

SEQ_NUMBER_LIMIT == 1073741824

(***************************************************************************)
(* Bounds of the model.                                                    *)
(***************************************************************************)
MaxWordLen == 6

MaxWords == 2

MaxFeeds == 2

(***************************************************************************)
(* Sequence helpers.                                                       *)
(***************************************************************************)
\* Faulty variant of Drop: one byte too many is taken off the front.
Drop_over(s, n) == SubSeq(s, n + 2, Len(s))

Drop(s, n) == SubSeq(s, n + 1, Len(s))

Take(s, n) == SubSeq(s, 1, n)

RECURSIVE Flatten(_)
Flatten(ss) == IF ss = <<>> THEN <<>> ELSE Head(ss) \o Flatten(Tail(ss))

RECURSIVE SumLen(_)
SumLen(ws) ==
  IF ws = <<>> THEN 0 ELSE Len(Head(ws)) + PACKET_WORD_MIN_SIZE + SumLen(Tail(ws))

(***************************************************************************)
(* PacketSequence, conn/packet.rs lines 182-235.                           *)
(***************************************************************************)
Kinds == {"Request", "Response"}

Origins == {"Server", "Client"}

\* PacketSequence::from_raw applied to the four little-endian bytes that
\* Buf::get_u32_le reads: bit 31 and bit 30 live in the fourth byte.
from_raw(b) ==
  [client |-> b[4] >= 128,
   respon |-> (b[4] \div 64) % 2 = 1,
   number |-> b[1] + 256 * b[2] + 65536 * b[3] + 16777216 * (b[4] % 64)]

\* PacketSequence::to_raw followed by BufMut::put_u32_le.
to_raw(seq) ==
  <<seq.number % 256,
    (seq.number \div 256) % 256,
    (seq.number \div 65536) % 256,
    (seq.number \div 16777216) + (IF seq.respon THEN 64 ELSE 0)
                               + (IF seq.client THEN 128 ELSE 0)>>

origin(seq) == IF seq.client THEN "Client" ELSE "Server"

kind(seq) == IF seq.respon THEN "Response" ELSE "Request"

\* Faulty variant of number: the client bit is not masked off.
number_unmasked(seq) == seq.number + (IF seq.client THEN SEQ_NUMBER_LIMIT ELSE 0)

\* Faulty variant of number: the number field is not read.
number_lost(seq) == 0

number(seq) == seq.number

\* Faulty variant of PacketSequence_new: the two header bits are exchanged.
PacketSequence_new_swapped(k, o, n) ==
  IF n \div SEQ_NUMBER_LIMIT # 0
  THEN [ok |-> FALSE, seq |-> [client |-> FALSE, respon |-> FALSE, number |-> 0]]
  ELSE [ok |-> TRUE,
        seq |-> [client |-> k = "Response", respon |-> o = "Client", number |-> n]]

\* PacketSequence::new: Err(InvalidSequenceNumber) when a header bit of n is set.
PacketSequence_new(k, o, n) ==
  IF n \div SEQ_NUMBER_LIMIT # 0
  THEN [ok |-> FALSE, seq |-> [client |-> FALSE, respon |-> FALSE, number |-> 0]]
  ELSE [ok |-> TRUE,
        seq |-> [client |-> o = "Client", respon |-> k = "Response", number |-> n]]

(***************************************************************************)
(* PacketWord, conn/packet.rs lines 241-280.                               *)
(***************************************************************************)
\* Faulty variant of is_valid_char: bytes of 128 and above pass.
is_valid_char_nonzero(byte) == byte # 0

is_valid_char(byte) == byte # 0 /\ byte < 128

\* Faulty variant of from_bytes: every byte string is taken as a word.
from_bytes_unchecked(bytes) == [ok |-> TRUE, err |-> "", char |-> 0, word |-> bytes]

\* PacketWord::from_bytes: the first invalid byte, in input order, is the error.
from_bytes(bytes) ==
  LET bad == {i \in 1..Len(bytes) : ~is_valid_char(bytes[i])}
  IN IF bad # {}
     THEN [ok |-> FALSE, err |-> "InvalidWordChar",
           char |-> bytes[CHOOSE i \in bad : \A j \in bad : i <= j], word |-> <<>>]
     ELSE [ok |-> TRUE, err |-> "", char |-> 0, word |-> bytes]

(***************************************************************************)
(* Size fields, conn/packet.rs lines 104-126.                              *)
(***************************************************************************)
put_u32_le(n) ==
  <<n % 256, (n \div 256) % 256, (n \div 65536) % 256, (n \div 16777216) % 256>>

\* Buf::get_u32_le.  The model's integers are 32-bit signed, so a value with
\* bit 31 set is reported as 2^31 - 1; every bound the program compares a
\* size against is below it, so each comparison has the u32's outcome.
get_u32_le(b) ==
  IF b[4] >= 128 THEN 2147483647
  ELSE b[1] + 256 * b[2] + 65536 * b[3] + 16777216 * b[4]

\* Faulty variant of read_u32_as_bounded_usize: the bounds are exclusive.
read_u32_as_bounded_usize_strict(b, min, max) ==
  LET val == get_u32_le(b)
  IN IF val <= min \/ val >= max
     THEN [ok |-> FALSE, val |-> val]
     ELSE [ok |-> TRUE, val |-> val]

read_u32_as_bounded_usize(b, min, max) ==
  LET val == get_u32_le(b)
  IN IF val < min \/ val > max
     THEN [ok |-> FALSE, val |-> val]
     ELSE [ok |-> TRUE, val |-> val]

\* Packet::byte_size
byte_size(packet) == SumLen(packet.words) + PACKET_HEADER_SIZE

(***************************************************************************)
(* write_packet, conn/packet.rs lines 79-100.  Every size here is far      *)
(* below u32::MAX, so write_size_u32 never fails and the result is the     *)
(* buffer after the call.                                                  *)
(***************************************************************************)
\* Faulty variant of the word loop of write_packet: no NULL terminator.
WordWire_unterminated(w) == put_u32_le(Len(w)) \o w

WordWire(w) == put_u32_le(Len(w)) \o w \o <<0>>

WordsWire(ws) == Flatten([i \in 1..Len(ws) |-> WordWire(ws[i])])

write_packet(b, packet) ==
  b \o to_raw(packet.seq)
    \o put_u32_le(byte_size(packet))
    \o put_u32_le(Len(packet.words))
    \o WordsWire(packet.words)

(***************************************************************************)
(* read_packet, conn/packet.rs lines 16-76.                                *)
(***************************************************************************)
NoSeq == [client |-> FALSE, respon |-> FALSE, number |-> 0]

NoPacket == [seq |-> NoSeq, words |-> <<>>]

RNone(b) == [tag |-> "None", packet |-> NoPacket, err |-> "", char |-> 0, buf |-> b]

\* Faulty variant of the Some result: the buffer is left empty.
RSome_drained(p, b) ==
  [tag |-> "Some", packet |-> p, err |-> "", char |-> 0, buf |-> <<>>]

RSome(p, b) == [tag |-> "Some", packet |-> p, err |-> "", char |-> 0, buf |-> b]

\* Err(e); char is the byte of an InvalidWordChar, 0 for every other error.
RErr(e, b) == [tag |-> "Err", packet |-> NoPacket, err |-> e, char |-> 0, buf |-> b]

\* The call did not return: a split_to beyond the end of its buffer panicked.
RPanic(b) == [tag |-> "Panic", packet |-> NoPacket, err |-> "", char |-> 0, buf |-> b]

\* BytesMut::unsplit(self, other) as read_packet uses it: `other` is the
\* header that was split off the FRONT of self, so the two are not contiguous
\* in the order self, other and unsplit appends other's bytes to self.
unsplit(self, other) == self \o other

\* BytesMut::split_to(at) returns when at <= len and panics otherwise.
split_ok(b, at) == at <= Len(b)

\* The test of line 48: the word's size prefix is not all there.
short_prefix(body) == Len(body) < 4

\* Faulty variant of short_word: the NULL terminator is not counted.
short_word_no_term(body, word_size) == Len(body) < word_size

\* The test of line 61: the word's content and terminator are not all there.
short_word(body, word_size) == Len(body) < word_size + 1

WordsErr(e, c, words) == [ok |-> FALSE, err |-> e, char |-> c, words |-> words]

\* The word loop, lines 44-74: n words are still to be read from body.
RECURSIVE ReadWords(_, _, _)
ReadWords(body, n, words) ==
  IF n = 0 THEN [ok |-> TRUE, err |-> "", char |-> 0, words |-> words]
  ELSE IF short_prefix(body) THEN WordsErr("Malformed", 0, words)
  ELSE IF ~split_ok(body, 4) THEN WordsErr("Panic", 0, words)
  ELSE LET word_size == read_u32_as_bounded_usize(Take(body, 4),
                            PACKET_WORD_MIN_SIZE, PACKET_WORD_MAX_SIZE)
           body1 == Drop(body, 4)
       IN IF ~word_size.ok THEN WordsErr("InvalidSize", 0, words)
          ELSE IF short_word(body1, word_size.val) THEN WordsErr("Malformed", 0, words)
          ELSE IF ~split_ok(body1, word_size.val) THEN WordsErr("Panic", 0, words)
          ELSE LET word_buf == Take(body1, word_size.val)
                   body2 == Drop(body1, word_size.val)
                   w == from_bytes(word_buf)
               IN IF ~split_ok(body2, 1) THEN WordsErr("Panic", 0, words)
                  ELSE IF Take(body2, 1) # <<0>> THEN WordsErr("Malformed", 0, words)
                  ELSE IF ~w.ok THEN WordsErr(w.err, w.char, words)
                  ELSE ReadWords(Drop(body2, 1), n - 1, Append(words, w.word))

\* What read_packet returns when the word loop has stopped early.
WordsFailed(r, b) ==
  IF r.err = "Panic" THEN RPanic(b) ELSE [RErr(r.err, b) EXCEPT !.char = r.char]

\* Faulty variant of read_packet: the word loop reads from everything that is
\* buffered, not from the body the header declares.
read_packet_unbounded_body(b) ==
  IF Len(b) < PACKET_HEADER_SIZE THEN RNone(b)
  ELSE IF ~split_ok(b, PACKET_HEADER_SIZE) THEN RPanic(b)
  ELSE LET header_buf == Take(b, PACKET_HEADER_SIZE)
           rest == Drop(b, PACKET_HEADER_SIZE)
           seq == from_raw(SubSeq(header_buf, 1, 4))
           size == read_u32_as_bounded_usize(SubSeq(header_buf, 5, 8),
                       PACKET_HEADER_SIZE, PACKET_MAX_SIZE)
           word_count == read_u32_as_bounded_usize(SubSeq(header_buf, 9, 12),
                             0, PACKET_MAX_WORDS)
       IN IF ~size.ok THEN RErr("InvalidSize", rest)
          ELSE IF ~word_count.ok THEN RErr("InvalidSize", rest)
          ELSE LET body_size == size.val - PACKET_HEADER_SIZE
               IN IF Len(rest) < body_size
                  THEN RNone(unsplit(rest, header_buf))
                  ELSE IF ~split_ok(rest, body_size) THEN RPanic(rest)
                  ELSE LET r == ReadWords(rest, word_count.val, <<>>)
                       IN IF r.ok
                          THEN RSome([seq |-> seq, words |-> r.words],
                                     Drop(rest, body_size))
                          ELSE WordsFailed(r, Drop(rest, body_size))

read_packet(b) ==
  IF Len(b) < PACKET_HEADER_SIZE THEN RNone(b)
  ELSE IF ~split_ok(b, PACKET_HEADER_SIZE) THEN RPanic(b)
  ELSE LET header_buf == Take(b, PACKET_HEADER_SIZE)
           rest == Drop(b, PACKET_HEADER_SIZE)
           seq == from_raw(SubSeq(header_buf, 1, 4))
           size == read_u32_as_bounded_usize(SubSeq(header_buf, 5, 8),
                       PACKET_HEADER_SIZE, PACKET_MAX_SIZE)
           word_count == read_u32_as_bounded_usize(SubSeq(header_buf, 9, 12),
                             0, PACKET_MAX_WORDS)
       IN IF ~size.ok THEN RErr("InvalidSize", rest)
          ELSE IF ~word_count.ok THEN RErr("InvalidSize", rest)
          ELSE LET body_size == size.val - PACKET_HEADER_SIZE
               IN IF Len(rest) < body_size
                  THEN RNone(unsplit(rest, header_buf))
                  ELSE IF ~split_ok(rest, body_size) THEN RPanic(rest)
                  ELSE LET r == ReadWords(Take(rest, body_size), word_count.val, <<>>)
                       IN IF r.ok
                          THEN RSome([seq |-> seq, words |-> r.words],
                                     Drop(rest, body_size))
                          ELSE WordsFailed(r, Drop(rest, body_size))

(***************************************************************************)
(* State.                                                                  *)
(*                                                                         *)
(* Codec harness: a packet is encoded with write_packet, its bytes reach   *)
(* the decode buffer in pieces and read_packet runs after every piece, as  *)
(* the framed transport does.                                              *)
(***************************************************************************)
VARIABLES
  cphase,     \* "start" | "wire": has the packet been encoded yet
  cpkt,       \* the Packet handed to write_packet
  cwire,      \* encoded bytes that have not reached the decode buffer yet
  buf,        \* the BytesMut read_packet works on
  prevBuf,    \* buf as it was before the latest read_packet call
  results,    \* results of the read_packet calls so far, in order
  feeds,      \* how many pieces have been appended to buf
  dirty       \* bytes were appended since the latest read_packet call

codecVars == <<cphase, cpkt, cwire, buf, prevBuf, results, feeds, dirty>>

(***************************************************************************)
(* Connection process: state of ConnectionProcess (connection.rs lines     *)
(* 112-124), of the Connection handle, of the callers' ResponseFutures and *)
(* of the peer at the other end of the transport.                          *)
(***************************************************************************)
VARIABLES
  role,               \* ConnectionProcess.role
  next_seq,           \* ConnectionProcess.next_seq
  broken,             \* Socket.broken
  request_rx,         \* envelopes queued on the request channel (caller ids)
  pending_requests,   \* ConnectionProcess.pending_requests: {[num, id]}
  pending_responses,  \* in-flight handler futures: {[hid, seq, st, body]}
  result,             \* what run() has returned, Running while it has not
  sender_alive,       \* Connection.sender has not been dropped
  handle_alive,       \* Connection.process_handle has not been dropped
  futures,            \* caller id -> state of that caller's ResponseFuture
  inWire,             \* packets the peer has sent that the socket has not read
  transport,          \* "open", "eof" (the peer closed its end) or "failed"
  outWire,            \* packets written to the socket, in order
  outSrc,             \* per outWire entry: caller id (request) or hid (response)
  dequeued,           \* caller ids in the order their envelopes were dequeued
  assigned,           \* caller id -> sequence number taken for its request, -1 if none
  readLog,            \* response packets the socket has yielded, in order
  hcount,             \* number of handler invocations so far
  peerSent,           \* number of packets the peer has sent so far
  term                \* what held when run() returned

connVars ==
  <<role, next_seq, broken, request_rx, pending_requests, pending_responses,
    result, sender_alive, handle_alive, futures, inWire, transport, outWire, outSrc, dequeued, assigned, readLog, hcount, peerSent, term>>

(***************************************************************************)
(* Socket harness: the Sink and Stream operations of the Socket            *)
(* (socket.rs lines 45-100) called one at a time, in any order, on the     *)
(* socket whose flag, transport and wires are the variables above.         *)
(***************************************************************************)
VARIABLES
  sop,        \* the latest operation called on the socket, "" before the first
  sres,       \* what that operation returned
  wbuf,       \* packets start_send has encoded that are not flushed yet
  touched,    \* number of calls the socket has passed on to its inner Framed
  sops        \* number of operations called so far

sockVars == <<sop, sres, wbuf, touched, sops>>

(***************************************************************************)
(* Constructor harness: one input, the operation applied to it and the     *)
(* value the operation returned.                                           *)
(***************************************************************************)
VARIABLES
  pin,        \* the input: [op, ...arguments]
  pout        \* the result, NoOut until the operation has run

pureVars == <<pin, pout>>

(***************************************************************************)
(* Connection::exec (connection.rs lines 25-33): what the latest call      *)
(* that failed before sending returned.                                    *)
(***************************************************************************)
VARIABLES
  execRes     \* [c, cmd, err, char], NoExec while no call has failed

execVars == <<execRes>>

(***************************************************************************)
(* The run loop seen at the grain of its await points: where run() is       *)
(* suspended, the packet a send is writing, the pieces of packets that have *)
(* reached the transport and the order in which handler futures resolved.   *)
(***************************************************************************)
VARIABLES
  pc,         \* "select": run() waits in select!; "send": it awaits a sock.send
  cur,        \* the send in progress: [packet, src, left], NoSend outside one
  wire,       \* pieces written to the transport, in order: [src, kind, part]
  yielded     \* hids of handler futures in the order arm 3 polled them to completion

writeVars == <<pc, cur, wire, yielded>>

auxVars == <<execVars, writeVars>>

vars == <<codecVars, connVars, sockVars, pureVars, auxVars>>

(***************************************************************************)
(* Bounds and inputs of the connection model.                              *)
(***************************************************************************)
MaxCalls == 2

MaxInbound == 2

Callers == 1..MaxCalls

W_OK == <<79, 75>>

W_hello == <<104, 101, 108, 108, 111>>

W_world == <<119, 111, 114, 108, 100>>

W_version == <<118, 101, 114, 115, 105, 111, 110>>

W_serverInfo == <<115, 101, 114, 118, 101, 114, 73, 110, 102, 111>>

\* The request caller c submits: the callers alternate between the two
\* commands of the concurrent-requests scenario.
RequestOf(c) == IF c % 2 = 1 THEN <<W_serverInfo>> ELSE <<W_version>>

PeerNumbers == {0, 1}

UnknownNumbers == {42}

PeerBodies == {<<W_hello>>, <<W_world>>}

HandlerBodies == {<<W_OK>>}

Bit(o) == o = "Client"

\* What the peer of a connection with role r may send:
\*  - responses carrying r's origin bit, for each number and body, for a
\*    number nobody asked for, and with a body of one short word;
\*  - responses carrying the other origin bit;
\*  - requests carrying the peer's origin bit, and one carrying r's own.
PeerPackets(r) ==
  {[seq |-> [client |-> Bit(r), respon |-> TRUE, number |-> n], words |-> b] :
     n \in PeerNumbers, b \in PeerBodies}
  \cup
  {[seq |-> [client |-> Bit(r), respon |-> TRUE, number |-> n], words |-> <<W_hello>>] :
     n \in UnknownNumbers}
  \cup
  {[seq |-> [client |-> Bit(r), respon |-> TRUE, number |-> 0], words |-> <<W_OK>>]}
  \cup
  {[seq |-> [client |-> ~Bit(r), respon |-> TRUE, number |-> n], words |-> <<W_hello>>] :
     n \in {0} \cup UnknownNumbers}
  \cup
  {[seq |-> [client |-> ~Bit(r), respon |-> FALSE, number |-> n], words |-> <<W_hello>>] :
     n \in PeerNumbers}
  \cup
  {[seq |-> [client |-> Bit(r), respon |-> FALSE, number |-> 0], words |-> <<W_hello>>]}

(***************************************************************************)
(* Values.                                                                 *)
(***************************************************************************)
Running == [st |-> "Running", err |-> "", sock |-> "", pkt |-> ""]

Dropped == [st |-> "Dropped", err |-> "", sock |-> "", pkt |-> ""]

OkResult == [st |-> "Ok", err |-> "", sock |-> "", pkt |-> ""]

Err(e) == [st |-> "Err", err |-> e, sock |-> "", pkt |-> ""]

\* Error::Socket(SocketError), error.rs lines 19-23 and socket.rs lines 105-122.
ErrSocket(se, pe) == [st |-> "Err", err |-> "Socket", sock |-> se, pkt |-> pe]

Unsent == [st |-> "unsent", body |-> <<>>]

Waiting == [st |-> "waiting", body |-> <<>>]

NoTerm == [cause |-> "", eof |-> FALSE, closed |-> FALSE, idle |-> FALSE]

\* The connection as ConnectionProcess::new and start leave it
\* (connection.rs lines 130-160), with nothing on the transport.
ConnIdle ==
  /\ next_seq = 0
  /\ broken = FALSE
  /\ request_rx = <<>>
  /\ pending_requests = {}
  /\ pending_responses = {}
  /\ result = Running
  /\ sender_alive = TRUE
  /\ handle_alive = TRUE
  /\ futures = [c \in Callers |-> Unsent]
  /\ inWire = <<>>
  /\ transport = "open"
  /\ outWire = <<>>
  /\ outSrc = <<>>
  /\ dequeued = <<>>
  /\ assigned = [c \in Callers |-> -1]
  /\ readLog = <<>>
  /\ hcount = 0
  /\ peerSent = 0
  /\ term = NoTerm

CodecIdle ==
  /\ cphase = "start"
  /\ cpkt = NoPacket
  /\ cwire = <<>>
  /\ buf = <<>>
  /\ prevBuf = <<>>
  /\ results = <<>>
  /\ feeds = 0
  /\ dirty = FALSE

SockIdle ==
  /\ sop = ""
  /\ sres = ""
  /\ wbuf = <<>>
  /\ touched = 0
  /\ sops = 0

NoExec == [c |-> 0, cmd |-> <<>>, err |-> "", char |-> 0]

NoSend == [packet |-> NoPacket, src |-> 0, left |-> 0]

AuxIdle ==
  /\ execRes = NoExec
  /\ pc = "select"
  /\ cur = NoSend
  /\ wire = <<>>
  /\ yielded = <<>>

NoIn == [op |-> ""]

NoOut == [tag |-> ""]

PureIdle ==
  /\ pin = NoIn
  /\ pout = NoOut

Init ==
  /\ role \in Origins
  /\ ConnIdle
  /\ CodecIdle
  /\ SockIdle
  /\ AuxIdle
  /\ PureIdle
(***************************************************************************)
(* Inputs of the codec harness: validated words of every length            *)
(* 0..MaxWordLen made of the smallest and the largest valid byte.          *)
(***************************************************************************)
WordChars == {1, 127}

CodecWords == {[i \in 1..n |-> c] : n \in 0..MaxWordLen, c \in WordChars}

CodecSeqs ==
  {[client |-> TRUE, respon |-> FALSE, number |-> 0],
   [client |-> FALSE, respon |-> TRUE, number |-> 7]}

CodecPackets ==
  {[seq |-> s, words |-> ws] :
     s \in CodecSeqs, ws \in UNION {[1..k -> CodecWords] : k \in 0..MaxWords}}

InitCodec ==
  /\ cphase = "start"
  /\ cpkt \in CodecPackets
  /\ cwire = <<>>
  /\ buf = <<>>
  /\ prevBuf = <<>>
  /\ results = <<>>
  /\ feeds = 0
  /\ dirty = FALSE
  /\ role = "Client"
  /\ ConnIdle
  /\ SockIdle
  /\ AuxIdle
  /\ PureIdle

\* Tag of the latest read_packet result, "" before the first call.
LastTag == IF results = <<>> THEN "" ELSE results[Len(results)].tag

\* write_packet into an empty buffer; the bytes are then on the transport.
CWrite ==
  /\ cphase = "start"
  /\ cphase' = "wire"
  /\ cwire' = write_packet(<<>>, cpkt)
  /\ UNCHANGED <<cpkt, buf, prevBuf, results, feeds, dirty>>
  /\ UNCHANGED <<connVars, sockVars, pureVars, auxVars>>

\* The transport appends the next k bytes to the decode buffer.
CFeed(k) ==
  /\ cphase = "wire"
  /\ ~dirty
  /\ feeds < MaxFeeds
  /\ LastTag \in {"", "None"}
  /\ buf' = buf \o Take(cwire, k)
  /\ cwire' = Drop(cwire, k)
  /\ feeds' = feeds + 1
  /\ dirty' = TRUE
  /\ UNCHANGED <<cphase, cpkt, prevBuf, results>>
  /\ UNCHANGED <<connVars, sockVars, pureVars, auxVars>>

\* One read_packet call on the decode buffer.
CRead ==
  /\ dirty
  /\ LET r == read_packet(buf)
     IN /\ buf' = r.buf
        /\ results' = Append(results, [tag |-> r.tag, packet |-> r.packet, err |-> r.err])
  /\ prevBuf' = buf
  /\ dirty' = FALSE
  /\ UNCHANGED <<cphase, cpkt, cwire, feeds>>
  /\ UNCHANGED <<connVars, sockVars, pureVars, auxVars>>

NextCodec ==
  \/ CWrite
  \/ \E k \in 1..Len(cwire) : CFeed(k)
  \/ CRead

SpecCodec == InitCodec /\ [][NextCodec]_vars

(***************************************************************************)
(* Codec properties.                                                       *)
(***************************************************************************)
Somes == {i \in 1..Len(results) : results[i].tag = "Some"}

AllFed == cphase = "wire" /\ cwire = <<>> /\ ~dirty

DecodesWhole(p) == read_packet(write_packet(<<>>, p)).tag = "Some"

\* C1: write_packet into an empty buffer followed by one read_packet returns
\* Some(q) with q.seq = p.seq and q.words = p.words and leaves the buffer
\* empty, for every packet of validated words within the size limits and
\* every word length from 0 upward.
C1_RoundTrip ==
  (AllFed /\ feeds = 1) =>
     /\ Len(results) = 1
     /\ results[1].tag = "Some"
     /\ results[1].packet.seq = cpkt.seq
     /\ results[1].packet.words = cpkt.words
     /\ buf = <<>>

\* C2: for every split b = b1 ++ b2 of an encoded packet (one that decodes
\* when buffered whole), read_packet on b1, then on the same buffer with b2
\* appended, yields exactly one Some(p), p the encoded packet, and the
\* buffer is empty afterwards.
C2_ProgressiveDecode ==
  (AllFed /\ feeds = 2 /\ DecodesWhole(cpkt)) =>
     /\ Cardinality(Somes) = 1
     /\ \A i \in Somes : results[i].packet = cpkt
     /\ buf = <<>>

\* C3: whenever read_packet returns Ok(None) the buffer holds the same bytes
\* in the same order as before the call.
C3_NoneLeavesBuffer ==
  (~dirty /\ LastTag = "None") => buf = prevBuf
(***************************************************************************)
(* Constructor harness: read_packet on hand-built byte buffers,            *)
(* PacketSequence::new on (kind, origin, number) triples and               *)
(* PacketWord::from_bytes on byte strings.                                 *)
(***************************************************************************)
MaxBytes == 3

\* The wire form of one word as a peer may write it: a declared content
\* size, the content and whatever follows the content.
RawWord(ws, content, tail) == put_u32_le(ws) \o content \o tail

\* A 12-byte header with the sequence of a server response numbered 7.
RawHeader(size, count) == <<7, 0, 0, 64>> \o put_u32_le(size) \o put_u32_le(count)

W_bad0 == <<104, 0, 108, 108, 111>>

W_bad200 == <<104, 200, 108, 108, 111>>

W_badboth == <<104, 200, 0, 108, 111>>

RawBodies ==
  {<<>>,
   RawWord(5, W_hello, <<0>>),
   RawWord(0, <<>>, <<0>>),
   RawWord(2, W_OK, <<0>>),
   RawWord(5, W_hello, <<1>>),
   RawWord(5, W_hello, <<>>),
   RawWord(6, W_hello, <<0>>),
   <<5, 0, 0>>,
   RawWord(5, W_bad0, <<0>>),
   RawWord(5, W_bad200, <<0>>),
   RawWord(5, W_bad200, <<1>>),
   RawWord(PACKET_WORD_MAX_SIZE, W_hello, <<0>>),
   RawWord(PACKET_WORD_MAX_SIZE + 1, W_hello, <<0>>),
   RawWord(5, W_hello, <<0>>) \o RawWord(5, W_world, <<0>>),
   RawWord(5, W_hello, <<0>>) \o RawWord(5, W_world, <<7>>),
   RawWord(5, W_hello, <<0>>) \o <<5, 0>>,
   RawWord(5, W_badboth, <<0>>),
   RawWord(5, W_hello, <<0>>) \o RawWord(5, W_bad0, <<0>>)}

\* Declared total sizes: the exact one and the values around both limits.
RawSizes(body) ==
  {0, PACKET_HEADER_SIZE - 1, PACKET_HEADER_SIZE, PACKET_HEADER_SIZE + Len(body),
   PACKET_MAX_SIZE, PACKET_MAX_SIZE + 1}

RawCounts == {0, 1, 2, PACKET_MAX_WORDS, PACKET_MAX_WORDS + 1}

\* A header whose size field has bit 31 set.
RawHuge == <<7, 0, 0, 64, 0, 0, 0, 128>> \o put_u32_le(1) \o RawWord(5, W_hello, <<0>>)

\* The bytes of tests::basic_packet_read_write_test: a client request
\* numbered 0 with the words "hello" and "world".
Fixture ==
  <<0, 0, 0, 128, 32, 0, 0, 0, 2, 0, 0, 0>>
    \o RawWord(5, W_hello, <<0>>) \o RawWord(5, W_world, <<0>>)

\* A packet whose body holds bytes behind its last word, alone in the buffer
\* or followed by a whole packet.
TrailWords == {<<>>, <<W_hello>>}

TrailJunk == {<<9>>, RawWord(5, W_world, <<0>>)}

TrailNext == {<<>>, RawHeader(22, 1) \o RawWord(5, W_world, <<0>>), Fixture}

Trailing(ws, junk, next) ==
  RawHeader(PACKET_HEADER_SIZE + Len(WordsWire(ws)) + Len(junk), Len(ws))
    \o WordsWire(ws) \o junk \o next

TrailInputs == {Trailing(ws, junk, next) : ws \in TrailWords, junk \in TrailJunk,
                                           next \in TrailNext}

\* Packets as a conformant encoder writes them, two to a buffer.
PairPackets ==
  {[seq |-> [client |-> TRUE, respon |-> FALSE, number |-> 0],
    words |-> <<W_hello, W_world>>],
   [seq |-> [client |-> FALSE, respon |-> TRUE, number |-> 7], words |-> <<W_world>>],
   [seq |-> [client |-> TRUE, respon |-> TRUE, number |-> 1], words |-> <<>>],
   [seq |-> [client |-> FALSE, respon |-> TRUE, number |-> 0], words |-> <<W_OK>>]}

PairInputs == {write_packet(write_packet(<<>>, p1), p2) : p1, p2 \in PairPackets}

DecodeInputs ==
  {[op |-> "read_packet", k |-> "", o |-> "", n |-> 0, bytes |-> b] :
     b \in UNION {{RawHeader(s, c) \o body : s \in RawSizes(body), c \in RawCounts} :
                    body \in RawBodies} \cup {RawHuge, Fixture} \cup TrailInputs \cup PairInputs}

SeqNumbers == {0, 1, 7, SEQ_NUMBER_LIMIT - 1, SEQ_NUMBER_LIMIT, SEQ_NUMBER_LIMIT + 1,
               SEQ_NUMBER_LIMIT + (SEQ_NUMBER_LIMIT - 1)}

SeqInputs ==
  {[op |-> "new", k |-> k, o |-> o, n |-> n, bytes |-> <<>>] :
     k \in Kinds, o \in Origins, n \in SeqNumbers}

ByteValues == {0, 1, 127, 128, 255}

WordInputs ==
  {[op |-> "from_bytes", k |-> "", o |-> "", n |-> 0, bytes |-> b] :
     b \in UNION {[1..l -> ByteValues] : l \in 0..MaxBytes}}

\* Raw sequence fields of inbound packets: each byte at and around the
\* header bits.
RawSeqBytes == {0, 1, 63, 64, 128, 191, 255}

ResponseSeqInputs ==
  {[op |-> "response_seq", k |-> "", o |-> "", n |-> 0, bytes |-> b] :
     b \in [1..4 -> RawSeqBytes]}

(***************************************************************************)
(* The blocking reader of packet.rs: read_packet (lines 35-90) over an     *)
(* io::Read that holds the input bytes and then ends, and PacketReader     *)
(* (lines 270-296) around it.                                              *)
(***************************************************************************)
BOk(p, b) == [tag |-> "Ok", packet |-> p, err |-> "", char |-> 0, buf |-> b]

BErr(e, c, b) == [tag |-> "Err", packet |-> NoPacket, err |-> e, char |-> c, buf |-> b]

\* An index or a slice beyond scratch.len() panics.
BPanic(b) == [tag |-> "Panic", packet |-> NoPacket, err |-> "", char |-> 0, buf |-> b]

\* The word loop, lines 67-88; cursor counts from 0 as scratch_cursor does.
RECURSIVE BlockingWords(_, _, _, _)
BlockingWords(scratch, cursor, n, words) ==
  IF n = 0 THEN [tag |-> "Ok", err |-> "", char |-> 0, words |-> words]
  ELSE IF Len(scratch) - cursor < PACKET_WORD_MIN_SIZE
  THEN [tag |-> "Err", err |-> "Malformed", char |-> 0, words |-> words]
  ELSE LET word_size_end == cursor + 4
           word_size == get_u32_le(SubSeq(scratch, cursor + 1, word_size_end))
           word_end == word_size_end + word_size
       IN IF word_size > PACKET_WORD_MAX_SIZE
          THEN [tag |-> "Err", err |-> "InvalidSize", char |-> 0, words |-> words]
          ELSE IF Len(scratch) - cursor < word_size
          THEN [tag |-> "Err", err |-> "Malformed", char |-> 0, words |-> words]
          ELSE IF word_end > Len(scratch)
          THEN [tag |-> "Panic", err |-> "", char |-> 0, words |-> words]
          ELSE IF word_end >= Len(scratch)
          THEN [tag |-> "Panic", err |-> "", char |-> 0, words |-> words]
          ELSE IF scratch[word_end + 1] # 0
          THEN [tag |-> "Err", err |-> "Malformed", char |-> 0, words |-> words]
          ELSE LET w == from_bytes(SubSeq(scratch, word_size_end + 1, word_end))
               IN IF ~w.ok
                  THEN [tag |-> "Err", err |-> w.err, char |-> w.char, words |-> words]
                  ELSE BlockingWords(scratch, word_end + 1, n - 1,
                                     Append(words, w.word))

\* read_packet(r, scratch), lines 35-90; read_exact on a stream that ends
\* early is Err(Io).
blocking_read_packet(b) ==
  IF Len(b) < 4 THEN BErr("Io", 0, <<>>)
  ELSE IF Len(b) < 8 THEN BErr("Io", 0, <<>>)
  ELSE LET seq == from_raw(SubSeq(b, 1, 4))
           size == get_u32_le(SubSeq(b, 5, 8))
       IN IF size > PACKET_MAX_SIZE THEN BErr("InvalidSize", 0, Drop(b, 8))
          ELSE IF size < PACKET_HEADER_SIZE THEN BErr("InvalidSize", 0, Drop(b, 8))
          ELSE IF Len(b) < 12 THEN BErr("Io", 0, <<>>)
          ELSE LET num_word == get_u32_le(SubSeq(b, 9, 12))
                   rest == Drop(b, 12)
                   body_size == size - PACKET_HEADER_SIZE
               IN IF num_word > PACKET_MAX_WORDS THEN BErr("InvalidSize", 0, rest)
                  ELSE IF Len(rest) < body_size THEN BErr("Io", 0, <<>>)
                  ELSE LET r == BlockingWords(Take(rest, body_size), 0, num_word, <<>>)
                           left == Drop(rest, body_size)
                       IN IF r.tag = "Ok"
                          THEN BOk([seq |-> seq, words |-> r.words], left)
                          ELSE IF r.tag = "Panic" THEN BPanic(left)
                          ELSE BErr(r.err, r.char, left)

\* Streams handed to a PacketReader: the decoder's inputs and a packet
\* whose one word declares five bytes with one byte of body behind the size.
ReaderInputs ==
  {[op |-> "reader", k |-> "", o |-> "", n |-> 0, bytes |-> i.bytes] : i \in DecodeInputs}
  \cup {[op |-> "reader", k |-> "", o |-> "", n |-> 0,
         bytes |-> RawHeader(17, 1) \o <<5, 0, 0, 0, 104>>]}

InitPure ==
  /\ pin \in DecodeInputs \cup SeqInputs \cup WordInputs \cup ResponseSeqInputs
              \cup ReaderInputs
  /\ pout = NoOut
  /\ role = "Client"
  /\ ConnIdle
  /\ CodecIdle
  /\ SockIdle
  /\ AuxIdle

\* read_packet on a buffer holding the input bytes.
Decode ==
  /\ pin.op = "read_packet"
  /\ pout.tag = ""
  /\ pout' = [tag |-> "done", r |-> read_packet(pin.bytes)]
  /\ UNCHANGED pin
  /\ UNCHANGED <<codecVars, connVars, sockVars, auxVars>>

\* The next read_packet on the buffer a decoded packet left behind.
DecodeAgain ==
  /\ pin.op = "read_packet"
  /\ pout.tag = "done"
  /\ pout.r.tag = "Some"
  /\ pout' = [tag |-> "again", r |-> read_packet(pout.r.buf)]
  /\ UNCHANGED pin
  /\ UNCHANGED <<codecVars, connVars, sockVars, auxVars>>

\* PacketSequence::new(kind, origin, n)
NewSequence ==
  /\ pin.op = "new"
  /\ pout.tag = ""
  /\ pout' = [tag |-> "done", r |-> PacketSequence_new(pin.k, pin.o, pin.n)]
  /\ UNCHANGED pin
  /\ UNCHANGED <<codecVars, connVars, sockVars, auxVars>>

\* PacketWord::from_bytes(bytes); Word::from_bytes of conn/body.rs is the
\* same search for the first invalid byte.
NewWord ==
  /\ pin.op = "from_bytes"
  /\ pout.tag = ""
  /\ pout' = [tag |-> "done", r |-> from_bytes(pin.bytes)]
  /\ UNCHANGED pin
  /\ UNCHANGED <<codecVars, connVars, sockVars, auxVars>>

\* The response sequence handle_outgoing_response builds (connection.rs
\* lines 221-228) for the request whose raw sequence is the input.
ResponseSequence ==
  /\ pin.op = "response_seq"
  /\ pout.tag = ""
  /\ LET request_seq == from_raw(pin.bytes)
     IN pout' = [tag |-> "done",
                 r |-> PacketSequence_new("Response", origin(request_seq),
                                          number(request_seq))]
  /\ UNCHANGED pin
  /\ UNCHANGED <<codecVars, connVars, sockVars, auxVars>>

\* PacketReader::read_packet, lines 284-295, the first call on a new reader
\* (broken is false).
ReaderRead ==
  /\ pin.op = "reader"
  /\ pout.tag = ""
  /\ LET r == blocking_read_packet(pin.bytes)
     IN pout' = [tag |-> "read", r |-> r, broken |-> r.tag = "Err"]
  /\ UNCHANGED pin
  /\ UNCHANGED <<codecVars, connVars, sockVars, auxVars>>

\* The next call on the same reader, the first having returned.
ReaderReadAgain ==
  /\ pin.op = "reader"
  /\ pout.tag = "read"
  /\ pout.r.tag # "Panic"
  /\ LET r == IF pout.broken THEN BErr("BrokenPipe", 0, pout.r.buf)
              ELSE blocking_read_packet(pout.r.buf)
     IN pout' = [tag |-> "reread", r |-> r, broken |-> pout.broken \/ r.tag = "Err"]
  /\ UNCHANGED pin
  /\ UNCHANGED <<codecVars, connVars, sockVars, auxVars>>

NextPure ==
  \/ Decode
  \/ ReaderRead
  \/ ReaderReadAgain
  \/ ResponseSequence
  \/ DecodeAgain
  \/ NewSequence
  \/ NewWord

SpecPure == InitPure /\ [][NextPure]_vars

(***************************************************************************)
(* Properties of the decoder and the constructors.                         *)
(***************************************************************************)
Decoded == pin.op = "read_packet" /\ pout.tag = "done"

\* The fields of the input's header and the bytes behind it.
InSize == get_u32_le(SubSeq(pin.bytes, 5, 8))

InCount == get_u32_le(SubSeq(pin.bytes, 9, 12))

InRest == Drop(pin.bytes, 12)

HeaderAccepted == 12 <= InSize /\ InSize <= 16384 /\ InCount <= 256

BodyBuffered == HeaderAccepted /\ Len(InRest) >= InSize - 12

InBody == Take(InRest, InSize - 12)

\* The packet of one word w, as the wire format lays it out.
OneWord(w) == RawHeader(12 + 4 + Len(w) + 1, 1) \o RawWord(Len(w), w, <<0>>)

\* C15: read_packet accepts a well-formed word for every declared content
\* size from 0 to 16367 and rejects a larger one with InvalidSize: the empty
\* word, the 19-byte packet of the word "OK" and a five-byte word decode to
\* the packet holding that word.
C15_WordSizeRange ==
  Decoded =>
    /\ \A w \in {<<>>, W_OK, W_hello} :
          pin.bytes = OneWord(w) =>
             /\ pout.r.tag = "Some"
             /\ pout.r.packet.words = <<w>>
    /\ (BodyBuffered /\ InCount >= 1 /\ Len(InBody) >= 4
          /\ get_u32_le(Take(InBody, 4)) > 16367)
         => (pout.r.tag = "Err" /\ pout.r.err = "InvalidSize")

\* C16: a header is accepted exactly when 12 <= total_size <= 16384 and
\* word_count <= 256.  A header outside these limits is rejected with
\* InvalidSize however many body bytes are buffered; an accepted header with
\* a short body waits (None), and with word_count 0 it yields a packet with
\* no words; InvalidSize under an accepted header comes from a word.
C16_HeaderValidation ==
  Decoded =>
    /\ ~HeaderAccepted => (pout.r.tag = "Err" /\ pout.r.err = "InvalidSize")
    /\ (HeaderAccepted /\ ~BodyBuffered) => pout.r.tag = "None"
    /\ (BodyBuffered /\ InCount = 0) =>
          (pout.r.tag = "Some" /\ pout.r.packet.words = <<>>)
    /\ (HeaderAccepted /\ pout.r.tag = "Err" /\ pout.r.err = "InvalidSize") =>
          (BodyBuffered /\ InCount >= 1)

\* Both limits met exactly: total_size 16384 and word_count 256 are accepted.
C16_Witness ==
  /\ Decoded
  /\ InSize = 16384
  /\ InCount = 256
  /\ pout.r.tag = "None"

\* What makes the word at the front of body malformed, for a declared size
\* the decoder accepts.
MalformedAt(body) ==
  \/ Len(body) < 4
  \/ /\ Len(body) >= 4
     /\ get_u32_le(Take(body, 4)) \in 5..16367
     /\ \/ Len(body) - 4 < get_u32_le(Take(body, 4)) + 1
        \/ body[4 + get_u32_le(Take(body, 4)) + 1] # 0

C18_SequenceNew ==
  (pin.op = "new" /\ pout.tag = "done") =>
    /\ pout.r.ok <=> pin.n < 1073741824
    /\ pout.r.ok =>
         /\ kind(pout.r.seq) = pin.k
         /\ origin(pout.r.seq) = pin.o
         /\ number(pout.r.seq) = pin.n
         /\ (to_raw(pout.r.seq)[4] >= 128) <=> (pin.o = "Client")
         /\ ((to_raw(pout.r.seq)[4] \div 64) % 2 = 1) <=> (pin.k = "Response")
         /\ from_raw(to_raw(pout.r.seq)) = pout.r.seq

\* The largest number was accepted for a client response.
C18_Witness ==
  /\ pin.op = "new"
  /\ pout.tag = "done"
  /\ pin.n = 1073741823
  /\ pin.k = "Response"
  /\ pin.o = "Client"
  /\ pout.r.ok
  /\ to_raw(pout.r.seq) = <<255, 255, 255, 255>>

\* C19: word construction succeeds exactly when every byte is in 1..127 and
\* then holds the input bytes (the empty word included); otherwise it fails
\* with InvalidWordChar(b), b the first byte of the input that is 0 or >= 128.
C19_WordBytes ==
  (pin.op = "from_bytes" /\ pout.tag = "done") =>
    LET bad == {i \in 1..Len(pin.bytes) : pin.bytes[i] \notin 1..127}
    IN /\ pout.r.ok <=> bad = {}
       /\ pout.r.ok => pout.r.word = pin.bytes
       /\ ~pout.r.ok =>
            /\ pout.r.err = "InvalidWordChar"
            /\ \E i \in bad :
                 /\ \A j \in bad : i <= j
                 /\ pout.r.char = pin.bytes[i]

\* A word with two offending bytes was refused naming the first, 128.
C19_Witness ==
  /\ pin.op = "from_bytes"
  /\ pout.tag = "done"
  /\ pin.bytes = <<1, 128, 0>>
  /\ ~pout.r.ok
  /\ pout.r.char = 128

\* The bytes the first read_packet took off the buffer.
Consumed == Take(pin.bytes, Len(pin.bytes) - Len(pout.r.buf))

\* C25 as stated: whenever read_packet returns Some(p), write_packet(p)
\* gives exactly the bytes read_packet consumed.
C25_ReencodeLaw ==
  (Decoded /\ pout.r.tag = "Some") =>
     write_packet(<<>>, pout.r.packet) = Consumed

\* C25 amended: whenever read_packet returns Some(p) and the declared
\* total_size is 12 plus the bytes the word_count words occupy (no body bytes
\* behind the last word), write_packet(p) gives exactly the bytes read_packet
\* consumed.
C25_ReencodeExact ==
  (Decoded /\ pout.r.tag = "Some" /\ InSize = byte_size(pout.r.packet)) =>
     write_packet(<<>>, pout.r.packet) = Consumed

\* The hello/world fixture was decoded and re-encodes to itself.
C25_Witness ==
  /\ Decoded
  /\ pin.bytes = Fixture
  /\ pout.r.tag = "Some"
  /\ pout.r.packet.words = <<W_hello, W_world>>
  /\ pout.r.buf = <<>>
  /\ write_packet(<<>>, pout.r.packet) = Fixture

\* C30: a packet whose declared total_size is larger than its word_count
\* words use is accepted with exactly those words; read_packet takes exactly
\* total_size bytes off the buffer, and the next read_packet decodes the
\* packet that follows from that packet's first byte.
C30_TrailingBytes ==
  /\ (Decoded /\ pout.r.tag = "Some") =>
        /\ Len(pin.bytes) - Len(pout.r.buf) = InSize
        /\ pout.r.buf = Drop(pin.bytes, InSize)
  /\ \A ws \in TrailWords, junk \in TrailJunk, next \in TrailNext :
        pin.bytes = Trailing(ws, junk, next) =>
          /\ Decoded =>
                /\ pout.r.tag = "Some"
                /\ pout.r.packet.words = ws
                /\ pout.r.buf = next
          /\ pout.tag = "again" =>
                IF next = <<>> THEN pout.r.tag = "None"
                ELSE /\ pout.r.tag = "Some"
                     /\ write_packet(<<>>, pout.r.packet) = next
                     /\ pout.r.buf = <<>>

\* One word, one byte behind it, and the fixture packet read by the second
\* call.
C30_Witness ==
  /\ pout.tag = "again"
  /\ pin.bytes = Trailing(<<W_hello>>, <<9>>, Fixture)
  /\ pout.r.tag = "Some"
  /\ pout.r.packet.words = <<W_hello, W_world>>
  /\ pout.r.packet.seq.client

\* C31: a successful read_packet takes the packet's wire bytes off the
\* buffer and nothing more: on a buffer holding the encodings of p1 and p2
\* back to back, a first call that succeeds returns p1 and leaves exactly
\* the encoding of p2, and the second call then returns p2 and leaves the
\* buffer empty.
C31_BackToBack ==
  \A p1, p2 \in PairPackets :
     pin.bytes = write_packet(write_packet(<<>>, p1), p2) =>
        /\ (Decoded /\ DecodesWhole(p1)) =>
              /\ pout.r.tag = "Some"
              /\ pout.r.packet = p1
              /\ pout.r.buf = write_packet(<<>>, p2)
        /\ (pout.tag = "again" /\ DecodesWhole(p2)) =>
              /\ pout.r.tag = "Some"
              /\ pout.r.packet = p2
              /\ pout.r.buf = <<>>

\* The fixture packet and a one-word response were read from one buffer.
C31_Witness ==
  /\ pout.tag = "again"
  /\ pin.bytes = Fixture \o RawHeader(22, 1) \o RawWord(5, W_world, <<0>>)
  /\ pout.r.tag = "Some"
  /\ pout.r.packet.words = <<W_world>>
  /\ pout.r.buf = <<>>

\* Either call of read_packet has returned.
DecodeReturned == pin.op = "read_packet" /\ pout.tag \in {"done", "again"}

\* The first byte of content that a word may not hold, 0..255; -1 if none.
FirstInvalid(content) ==
  LET bad == {i \in 1..Len(content) : content[i] = 0 \/ content[i] >= 128}
  IN IF bad = {} THEN -1
     ELSE content[CHOOSE i \in bad : \A j \in bad : i <= j]

\* The word at the front of body has its size prefix, its content and its
\* 0x00 terminator, with a declared size the decoder accepts.
FramedAt(body) ==
  /\ Len(body) >= 4
  /\ get_u32_le(Take(body, 4)) \in 5..16367
  /\ Len(body) - 4 >= get_u32_le(Take(body, 4)) + 1
  /\ body[4 + get_u32_le(Take(body, 4)) + 1] = 0

ContentAt(body) == SubSeq(body, 5, 4 + get_u32_le(Take(body, 4)))

C35_NoPanic ==
  DecodeReturned =>
    /\ pout.r.tag \in {"None", "Some", "Err"}
    /\ (pout.tag = "done" /\ BodyBuffered /\ InCount >= 1 /\ Len(InBody) >= 4
          /\ get_u32_le(Take(InBody, 4)) \in 5..16367
          /\ Len(InBody) - 4 < get_u32_le(Take(InBody, 4)) + 1) => pout.r.tag = "Err"
    /\ (pout.tag = "done" /\ BodyBuffered /\ InCount >= 2 /\ FramedAt(InBody)
          /\ FirstInvalid(ContentAt(InBody)) = -1
          /\ ~FramedAt(Drop(InBody, 5 + Len(ContentAt(InBody))))) => pout.r.tag = "Err"

\* A word declaring five bytes of content with exactly five bytes left of
\* the body, none for the terminator, was refused.
C35_Witness ==
  /\ Decoded
  /\ pin.bytes = RawHeader(21, 1) \o RawWord(5, W_hello, <<>>)
  /\ pout.r.tag = "Err"
  /\ pout.r.err = "Malformed"

\* C39: for every raw sequence value of an inbound request the response
\* sequence handle_outgoing_response builds is accepted by
\* PacketSequence::new, and it is the request's raw value with bit 30 set.
C39_ResponseSequence ==
  (pin.op = "response_seq" /\ pout.tag = "done" /\ pin.bytes[4] \div 64 \in {0, 2}) =>
     /\ pout.r.ok
     /\ to_raw(pout.r.seq) = [pin.bytes EXCEPT ![4] = @ + 64]

\* The client request with every number bit set was answered.
C39_Witness ==
  /\ pin.op = "response_seq"
  /\ pout.tag = "done"
  /\ pin.bytes = <<255, 255, 255, 191>>
  /\ pout.r.ok
  /\ to_raw(pout.r.seq) = <<255, 255, 255, 255>>

\* The first word of body does not have its size prefix, its declared
\* content and its terminator within body.
WordOverruns(body) ==
  \/ Len(body) < 4
  \/ /\ get_u32_le(Take(body, 4)) <= 16367
     /\ Len(body) < 4 + get_u32_le(Take(body, 4)) + 1

\* C40: the blocking read_packet never indexes scratch out of bounds: a
\* first word that does not fit in the body yields Malformed, and once a
\* read has failed the PacketReader answers BrokenPipe.
C40_BlockingReader ==
  (pin.op = "reader" /\ pout.tag \in {"read", "reread"}) =>
     /\ pout.r.tag # "Panic"
     /\ (pout.tag = "read" /\ BodyBuffered /\ InCount >= 1 /\ WordOverruns(InBody)) =>
           (pout.r.tag = "Err" /\ pout.r.err = "Malformed")
     /\ (pout.tag = "reread" /\ pout.broken) =>
           (pout.r.tag = "Err" /\ pout.r.err = "BrokenPipe")
(***************************************************************************)
(* Helpers of the connection process.                                      *)
(***************************************************************************)
\* Faulty variant of remove: the key is ignored and the oldest pending entry is taken.
remove_any(table, n) ==
  IF table = {} THEN {}
  ELSE {CHOOSE e \in table : \A f \in table : e.num <= f.num}

\* HashMap::remove(&n) on the pending table: the entries stored under key n.
remove(table, n) == {e \in table : e.num = n}

\* Faulty variant of insert: the entry is stored under the following number.
insert_next(table, n, c) ==
  {e \in table : e.num # n + 1} \cup {[num |-> n + 1, id |-> c]}

\* HashMap::insert(n, responder): an entry under the same key is replaced.
insert(table, n, c) == {e \in table : e.num # n} \cup {[num |-> n, id |-> c]}

\* Faulty variant of origin_mismatch: the origin of a response is not checked.
origin_unchecked(seq, r) == FALSE

\* The origin test of handle_incoming_packet on a response.
origin_mismatch(seq, r) == origin(seq) # r

\* Faulty variant of missing_sequence: the wrong error kind is reported.
missing_sequence_as_mismatch == Err("OriginMismatch")

\* The error a response with no pending entry fails with.
missing_sequence == Err("InvalidSequence")

\* Faulty variant of advance: the counter is not incremented.
advance_stuck(n) == n

\* next_seq += 1
advance(n) == n + 1

\* Faulty variant of respond: the response is delivered whatever has become of
\* the receiver.
respond_revive(f, c, body) == [f EXCEPT ![c] = [st |-> "ok", body |-> body]]

\* oneshot::Sender::send through `let _ = responder.send(response)`: the
\* response reaches a receiver that still waits, otherwise it is discarded.
respond(f, c, body) ==
  [f EXCEPT ![c] = IF @.st = "waiting" THEN [st |-> "ok", body |-> body] ELSE @]

\* Faulty variant of drop_responders: the responders outlive the process.
drop_none(f, ids) == f

\* Dropping oneshot senders without a response: their receivers observe
\* Canceled, which ResponseFuture::poll maps to RequestCancelled.
drop_responders(f, ids) ==
  [c \in Callers |->
     IF c \in ids /\ f[c].st = "waiting" THEN [st |-> "cancelled", body |-> <<>>]
     ELSE f[c]]

\* Faulty variant of HeldResponders: the queued envelopes outlive the process.
HeldResponders_table == {e.id : e \in pending_requests}

\* The responders the process owns: in the pending table and in the
\* envelopes still queued on its receiver.
HeldResponders ==
  {e.id : e \in pending_requests} \cup {request_rx[i] : i \in 1..Len(request_rx)}

SockAtEof == inWire = <<>> /\ transport = "eof" /\ ~broken

ChanClosed == request_rx = <<>> /\ ~sender_alive

\* Faulty variant of Terminate: the error is swallowed and run() loops on.
Terminate_ignored(res, cause) ==
  /\ UNCHANGED <<result, term, futures, pending_requests, pending_responses,
                 request_rx>>

\* run() returns (or its future is dropped): the ConnectionProcess moved into
\* the spawned future is dropped with it, that is its pending table, its
\* receiver with the queued envelopes and its in-flight handler futures.
Terminate(res, cause) ==
  /\ result' = res
  /\ term' = [cause |-> cause, eof |-> SockAtEof, closed |-> ChanClosed,
              idle |-> pending_responses = {}]
  /\ futures' = drop_responders(futures, HeldResponders)
  /\ pending_requests' = {}
  /\ pending_responses' = {}
  /\ request_rx' = <<>>

\* Socket::poll_next over the framed transport (socket.rs lines 45-57): the
\* next frame of the peer is decoded by read_packet from the bytes a
\* conformant encoder puts on the wire for it.
poll_next ==
  IF broken THEN [tag |-> "End", packet |-> NoPacket, sock |-> "", pkt |-> ""]
  ELSE IF transport = "failed" THEN [tag |-> "Err", packet |-> NoPacket, sock |-> "Io", pkt |-> ""]
  ELSE IF inWire # <<>>
  THEN LET r == read_packet(write_packet(<<>>, Head(inWire)))
       IN IF r.tag = "Some"
          THEN [tag |-> "Item", packet |-> r.packet, sock |-> "", pkt |-> ""]
          ELSE [tag |-> "Err", packet |-> NoPacket, sock |-> "Packet", pkt |-> r.err]
  ELSE IF transport = "eof" THEN [tag |-> "End", packet |-> NoPacket, sock |-> "", pkt |-> ""]
  ELSE [tag |-> "Pending", packet |-> NoPacket, sock |-> "", pkt |-> ""]

\* SinkExt::send on the Socket (socket.rs lines 69-100): poll_ready,
\* start_send and poll_flush each fail with Broken once the flag is set and
\* otherwise pass the transport's outcome on.
send ==
  IF broken THEN "Broken" ELSE IF transport = "failed" THEN "Io" ELSE "Ok"

(***************************************************************************)
(* handle_incoming_packet, connection.rs lines 162-196.                    *)
(***************************************************************************)
\* Faulty variant of handle_incoming_packet: the responder is cloned out of the
\* table, which keeps its entry.
handle_incoming_packet_keep(packet) ==
  IF kind(packet.seq) = "Request"
  THEN /\ pending_responses' = pending_responses \cup
            {[hid |-> hcount + 1, seq |-> packet.seq, st |-> "pending", body |-> <<>>]}
       /\ hcount' = hcount + 1
       /\ UNCHANGED <<result, term, futures, pending_requests, request_rx>>
  ELSE IF origin_mismatch(packet.seq, role)
  THEN /\ Terminate(Err("OriginMismatch"), "error")
       /\ UNCHANGED hcount
  ELSE IF remove(pending_requests, number(packet.seq)) = {}
  THEN /\ Terminate(missing_sequence, "error")
       /\ UNCHANGED hcount
  ELSE LET e == CHOOSE e \in remove(pending_requests, number(packet.seq)) : TRUE
       IN /\ futures' = respond(futures, e.id, packet.words)
          /\ UNCHANGED <<result, term, pending_requests, pending_responses,
                         request_rx, hcount>>

\* Faulty variant of handle_incoming_packet: the origin test that the source
\* has commented out (lines 166-169) is applied to requests.
handle_incoming_packet_strict(packet) ==
  IF kind(packet.seq) = "Request"
  THEN IF origin(packet.seq) = role
       THEN /\ Terminate(Err("OriginMismatch"), "error")
            /\ UNCHANGED hcount
       ELSE /\ pending_responses' = pending_responses \cup
                 {[hid |-> hcount + 1, seq |-> packet.seq, st |-> "pending", body |-> <<>>]}
            /\ hcount' = hcount + 1
            /\ UNCHANGED <<result, term, futures, pending_requests, request_rx>>
  ELSE IF origin_mismatch(packet.seq, role)
  THEN /\ Terminate(Err("OriginMismatch"), "error")
       /\ UNCHANGED hcount
  ELSE IF remove(pending_requests, number(packet.seq)) = {}
  THEN /\ Terminate(missing_sequence, "error")
       /\ UNCHANGED hcount
  ELSE LET e == CHOOSE e \in remove(pending_requests, number(packet.seq)) : TRUE
       IN /\ pending_requests' = pending_requests \ {e}
          /\ futures' = respond(futures, e.id, packet.words)
          /\ UNCHANGED <<result, term, pending_responses, request_rx, hcount>>

handle_incoming_packet(packet) ==
  IF kind(packet.seq) = "Request"
  THEN /\ pending_responses' = pending_responses \cup
            {[hid |-> hcount + 1, seq |-> packet.seq, st |-> "pending", body |-> <<>>]}
       /\ hcount' = hcount + 1
       /\ UNCHANGED <<result, term, futures, pending_requests, request_rx>>
  ELSE IF origin_mismatch(packet.seq, role)
  THEN /\ Terminate(Err("OriginMismatch"), "error")
       /\ UNCHANGED hcount
  ELSE IF remove(pending_requests, number(packet.seq)) = {}
  THEN /\ Terminate(missing_sequence, "error")
       /\ UNCHANGED hcount
  ELSE LET e == CHOOSE e \in remove(pending_requests, number(packet.seq)) : TRUE
       IN /\ pending_requests' = pending_requests \ {e}
          /\ futures' = respond(futures, e.id, packet.words)
          /\ UNCHANGED <<result, term, pending_responses, request_rx, hcount>>

(***************************************************************************)
(* run(), connection.rs lines 234-252: one action per select! arm.         *)
(***************************************************************************)
\* Arm 1: self.sock.next() is ready.
RunIncoming ==
  /\ result = Running
  /\ LET r == poll_next
     IN /\ r.tag # "Pending"
        /\ IF r.tag = "Item"
           THEN /\ handle_incoming_packet(r.packet)
                /\ inWire' = Tail(inWire)
                /\ readLog' = IF kind(r.packet.seq) = "Response"
                              THEN Append(readLog, r.packet) ELSE readLog
                /\ UNCHANGED broken
           ELSE IF r.tag = "Err"
           THEN /\ Terminate(ErrSocket(r.sock, r.pkt), "error")
                /\ broken' = TRUE
                /\ inWire' = IF r.sock = "Packet" THEN Tail(inWire) ELSE inWire
                /\ UNCHANGED <<readLog, hcount>>
           ELSE /\ Terminate(ErrSocket("Closed", ""), "sock_eof")
                /\ UNCHANGED <<broken, inWire, readLog, hcount>>
  /\ UNCHANGED <<role, next_seq, sender_alive, handle_alive, transport, outWire,
                 outSrc, dequeued, assigned, peerSent>>
  /\ UNCHANGED <<codecVars, sockVars, pureVars, auxVars>>

\* Faulty variant of RunOutgoingRequest: the counter wraps to 0 at 2^30.
RunOutgoingRequest_wrapping ==
  /\ result = Running
  /\ IF request_rx # <<>>
     THEN LET c == Head(request_rx)
              seq_num == next_seq
              seq == PacketSequence_new("Request", role, seq_num % SEQ_NUMBER_LIMIT)
              packet == [seq |-> seq.seq, words |-> RequestOf(c)]
          IN /\ next_seq' = advance(next_seq)
             /\ assigned' = [assigned EXCEPT ![c] = seq_num]
             /\ dequeued' = Append(dequeued, c)
             /\ IF ~seq.ok
                THEN /\ Terminate(Err("InvalidSequence"), "error")
                     /\ UNCHANGED <<outWire, outSrc>>
                ELSE IF send # "Ok"
                THEN /\ Terminate(ErrSocket(send, ""), "error")
                     /\ UNCHANGED <<outWire, outSrc>>
                ELSE /\ outWire' = Append(outWire, packet)
                     /\ outSrc' = Append(outSrc, c)
                     /\ pending_requests' = insert(pending_requests, seq_num, c)
                     /\ request_rx' = Tail(request_rx)
                     /\ UNCHANGED <<result, term, futures, pending_responses>>
     ELSE /\ ~sender_alive
          /\ Terminate(ErrSocket("Closed", ""), "chan_closed")
          /\ UNCHANGED <<next_seq, assigned, dequeued, outWire, outSrc>>
  /\ UNCHANGED <<role, broken, sender_alive, handle_alive, inWire, transport,
                 readLog, hcount, peerSent>>
  /\ UNCHANGED <<codecVars, sockVars, pureVars, auxVars>>

\* Arm 2: self.request_rx.next() is ready; handle_outgoing_request is
\* lines 198-215.
RunOutgoingRequest ==
  /\ result = Running
  /\ IF request_rx # <<>>
     THEN LET c == Head(request_rx)
              seq_num == next_seq
              seq == PacketSequence_new("Request", role, seq_num)
              packet == [seq |-> seq.seq, words |-> RequestOf(c)]
          IN /\ next_seq' = advance(next_seq)
             /\ assigned' = [assigned EXCEPT ![c] = seq_num]
             /\ dequeued' = Append(dequeued, c)
             /\ IF ~seq.ok
                THEN /\ Terminate(Err("InvalidSequence"), "error")
                     /\ UNCHANGED <<outWire, outSrc>>
                ELSE IF send # "Ok"
                THEN /\ Terminate(ErrSocket(send, ""), "error")
                     /\ UNCHANGED <<outWire, outSrc>>
                ELSE /\ outWire' = Append(outWire, packet)
                     /\ outSrc' = Append(outSrc, c)
                     /\ pending_requests' = insert(pending_requests, seq_num, c)
                     /\ request_rx' = Tail(request_rx)
                     /\ UNCHANGED <<result, term, futures, pending_responses>>
     ELSE /\ ~sender_alive
          /\ Terminate(ErrSocket("Closed", ""), "chan_closed")
          /\ UNCHANGED <<next_seq, assigned, dequeued, outWire, outSrc>>
  /\ UNCHANGED <<role, broken, sender_alive, handle_alive, inWire, transport,
                 readLog, hcount, peerSent>>
  /\ UNCHANGED <<codecVars, sockVars, pureVars, auxVars>>

\* Faulty variant of RunOutgoingResponse: the response carries the connection's
\* own role as origin, not the origin of the request.
RunOutgoingResponse_own_origin ==
  /\ result = Running
  /\ \E h \in pending_responses :
       /\ h.st # "pending"
       /\ IF h.st = "err"
          THEN /\ Terminate(Err("Handler"), "error")
               /\ UNCHANGED <<outWire, outSrc>>
          ELSE LET response_seq ==
                     PacketSequence_new("Response", role, number(h.seq))
                   response_packet == [seq |-> response_seq.seq, words |-> h.body]
               IN IF ~response_seq.ok
                  THEN /\ Terminate(Err("InvalidSequence"), "error")
                       /\ UNCHANGED <<outWire, outSrc>>
                  ELSE IF send # "Ok"
                  THEN /\ Terminate(ErrSocket(send, ""), "error")
                       /\ UNCHANGED <<outWire, outSrc>>
                  ELSE /\ outWire' = Append(outWire, response_packet)
                       /\ outSrc' = Append(outSrc, h.hid)
                       /\ pending_responses' = pending_responses \ {h}
                       /\ UNCHANGED <<result, term, futures, pending_requests,
                                      request_rx>>
  /\ UNCHANGED <<role, next_seq, broken, sender_alive, handle_alive, inWire,
                 transport, dequeued, assigned, readLog, hcount, peerSent>>
  /\ UNCHANGED <<codecVars, sockVars, pureVars, auxVars>>

\* Arm 3: self.pending_responses.next() yields a completed handler future;
\* handle_outgoing_response is lines 217-232.  (On an empty set the arm
\* yields None and changes nothing.)
RunOutgoingResponse ==
  /\ result = Running
  /\ \E h \in pending_responses :
       /\ h.st # "pending"
       /\ IF h.st = "err"
          THEN /\ Terminate(Err("Handler"), "error")
               /\ UNCHANGED <<outWire, outSrc>>
          ELSE LET response_seq ==
                     PacketSequence_new("Response", origin(h.seq), number(h.seq))
                   response_packet == [seq |-> response_seq.seq, words |-> h.body]
               IN IF ~response_seq.ok
                  THEN /\ Terminate(Err("InvalidSequence"), "error")
                       /\ UNCHANGED <<outWire, outSrc>>
                  ELSE IF send # "Ok"
                  THEN /\ Terminate(ErrSocket(send, ""), "error")
                       /\ UNCHANGED <<outWire, outSrc>>
                  ELSE /\ outWire' = Append(outWire, response_packet)
                       /\ outSrc' = Append(outSrc, h.hid)
                       /\ pending_responses' = pending_responses \ {h}
                       /\ UNCHANGED <<result, term, futures, pending_requests,
                                      request_rx>>
  /\ UNCHANGED <<role, next_seq, broken, sender_alive, handle_alive, inWire,
                 transport, dequeued, assigned, readLog, hcount, peerSent>>
  /\ UNCHANGED <<codecVars, sockVars, pureVars, auxVars>>

\* The RemoteHandle made by start() (line 152) has been dropped: the spawned
\* future is dropped without yielding a result.
ProcessCancelled ==
  /\ result = Running
  /\ ~handle_alive
  /\ Terminate(Dropped, "dropped")
  /\ UNCHANGED <<role, next_seq, broken, sender_alive, handle_alive, inWire,
                 transport, outWire, outSrc, dequeued, assigned, readLog,
                 hcount, peerSent>>
  /\ UNCHANGED <<codecVars, sockVars, pureVars, auxVars>>

(***************************************************************************)
(* The environment of the process.                                         *)
(***************************************************************************)
\* Handler::handle's future (handler.rs lines 26-31) becomes ready.
HandlerComplete(h, ok, body) ==
  /\ result = Running
  /\ h \in pending_responses
  /\ h.st = "pending"
  /\ pending_responses' = (pending_responses \ {h}) \cup
        {[h EXCEPT !.st = IF ok THEN "ok" ELSE "err",
                   !.body = IF ok THEN body ELSE <<>>]}
  /\ UNCHANGED <<role, next_seq, broken, request_rx, pending_requests, result,
                 sender_alive, handle_alive, futures, inWire, transport,
                 outWire, outSrc, dequeued, assigned, readLog, hcount, peerSent,
                 term>>
  /\ UNCHANGED <<codecVars, sockVars, pureVars, auxVars>>

\* Faulty variant of Send: a failed unbounded_send goes unnoticed and the
\* future is built with a receiver.
Send_blind(c) ==
  /\ sender_alive
  /\ futures[c].st = "unsent"
  /\ \A d \in Callers : d < c => futures[d].st # "unsent"
  /\ IF result = Running
     THEN /\ request_rx' = Append(request_rx, c)
          /\ futures' = [futures EXCEPT ![c] = Waiting]
     ELSE /\ futures' = [futures EXCEPT ![c] = Waiting]
          /\ UNCHANGED request_rx
  /\ UNCHANGED <<role, next_seq, broken, pending_requests, pending_responses,
                 result, sender_alive, handle_alive, inWire, transport, outWire,
                 outSrc, dequeued, assigned, readLog, hcount, peerSent, term>>
  /\ UNCHANGED <<codecVars, sockVars, pureVars, auxVars>>

\* Connection::send_request, that is Sender::send (respondable.rs lines
\* 43-56), by the next caller.
Send(c) ==
  /\ sender_alive
  /\ futures[c].st = "unsent"
  /\ \A d \in Callers : d < c => futures[d].st # "unsent"
  /\ IF result = Running
     THEN /\ request_rx' = Append(request_rx, c)
          /\ futures' = [futures EXCEPT ![c] = Waiting]
     ELSE /\ futures' = [futures EXCEPT ![c] = [st |-> "failed", body |-> <<>>]]
          /\ UNCHANGED request_rx
  /\ UNCHANGED <<role, next_seq, broken, pending_requests, pending_responses,
                 result, sender_alive, handle_alive, inWire, transport, outWire,
                 outSrc, dequeued, assigned, readLog, hcount, peerSent, term>>
  /\ UNCHANGED <<codecVars, sockVars, pureVars, auxVars>>

\* Connection::finish (connection.rs lines 35-37): the handle is consumed,
\* its sender is dropped and the RemoteHandle is kept by the caller.
Finish ==
  /\ result = Running
  /\ sender_alive
  /\ sender_alive' = FALSE
  /\ UNCHANGED <<role, next_seq, broken, request_rx, pending_requests,
                 pending_responses, result, handle_alive, futures, inWire,
                 transport, outWire, outSrc, dequeued, assigned, readLog,
                 hcount, peerSent, term>>
  /\ UNCHANGED <<codecVars, sockVars, pureVars, auxVars>>

\* The Connection (connection.rs lines 19-22) is dropped: its sender and its
\* RemoteHandle go with it.
DropConnection ==
  /\ result = Running
  /\ sender_alive
  /\ sender_alive' = FALSE
  /\ handle_alive' = FALSE
  /\ UNCHANGED <<role, next_seq, broken, request_rx, pending_requests,
                 pending_responses, result, futures, inWire, transport, outWire,
                 outSrc, dequeued, assigned, readLog, hcount, peerSent, term>>
  /\ UNCHANGED <<codecVars, sockVars, pureVars, auxVars>>

\* The peer writes one more packet; the transport hands the socket one
\* frame at a time, the next one once the socket has taken the previous.
PeerSend(p) ==
  /\ result = Running
  /\ transport = "open"
  /\ inWire = <<>>
  /\ peerSent < MaxInbound
  /\ inWire' = Append(inWire, p)
  /\ peerSent' = peerSent + 1
  /\ UNCHANGED <<role, next_seq, broken, request_rx, pending_requests,
                 pending_responses, result, sender_alive, handle_alive, futures,
                 transport, outWire, outSrc, dequeued, assigned, readLog,
                 hcount, term>>
  /\ UNCHANGED <<codecVars, sockVars, pureVars, auxVars>>

\* The peer closes its end of the transport.
PeerClose ==
  /\ result = Running
  /\ transport = "open"
  /\ transport' = "eof"
  /\ UNCHANGED <<role, next_seq, broken, request_rx, pending_requests,
                 pending_responses, result, sender_alive, handle_alive, futures,
                 inWire, outWire, outSrc, dequeued, assigned, readLog, hcount,
                 peerSent, term>>
  /\ UNCHANGED <<codecVars, sockVars, pureVars, auxVars>>

\* The transport fails: reads and writes return an I/O error from now on.
TransportError ==
  /\ result = Running
  /\ transport = "open"
  /\ transport' = "failed"
  /\ UNCHANGED <<role, next_seq, broken, request_rx, pending_requests,
                 pending_responses, result, sender_alive, handle_alive, futures,
                 inWire, outWire, outSrc, dequeued, assigned, readLog, hcount,
                 peerSent, term>>
  /\ UNCHANGED <<codecVars, sockVars, pureVars, auxVars>>

Next ==
  \/ RunIncoming
  \/ RunOutgoingRequest
  \/ RunOutgoingResponse
  \/ ProcessCancelled
  \/ \E h \in pending_responses, ok \in BOOLEAN, body \in HandlerBodies :
       HandlerComplete(h, ok, body)
  \/ \E c \in Callers : Send(c)
  \/ Finish
  \/ DropConnection
  \/ \E p \in PeerPackets(role) : PeerSend(p)
  \/ PeerClose
  \/ TransportError

Spec == Init /\ [][Next]_vars
(***************************************************************************)
(* Socket harness: poll_next and the four Sink operations of the Socket,   *)
(* socket.rs lines 30-100, called in any order while the peer sends,       *)
(* closes or the transport fails.                                          *)
(***************************************************************************)
MaxSockOps == 4

SinkOps == {"poll_ready", "start_send", "poll_flush", "poll_close"}

\* The packet handed to start_send.
SockItem ==
  [seq |-> [client |-> Bit(role), respon |-> FALSE, number |-> 0],
   words |-> <<W_hello>>]

\* Faulty variant of get_pinned_inner: the flag is not consulted.
get_pinned_inner_unlatched == "Ok"

\* Socket::get_pinned_inner, lines 30-36: Err(Broken) once the flag is set.
get_pinned_inner == IF broken THEN "Broken" ELSE "Ok"

\* The inner Framed's answer to a sink operation: start_send encodes into
\* the write buffer, poll_ready finds room in it, poll_flush and poll_close
\* write the buffer to the transport and report its failure.
inner_sink(op) ==
  IF op \in {"poll_flush", "poll_close"} /\ transport = "failed" THEN "Io" ELSE "Ok"

InitSocket ==
  /\ role = "Client"
  /\ ConnIdle
  /\ CodecIdle
  /\ SockIdle
  /\ AuxIdle
  /\ PureIdle

\* Stream::poll_next on the Socket, lines 45-57: a Some(Err(_)) from the
\* inner Framed sets the flag.
SockPollNext ==
  /\ sops < MaxSockOps
  /\ LET r == poll_next
     IN /\ sop' = "poll_next"
        /\ sres' = IF r.tag = "Err" THEN r.sock ELSE r.tag
        /\ broken' = IF r.tag = "Err" THEN TRUE ELSE broken
        /\ inWire' = IF r.tag = "Item" \/ (r.tag = "Err" /\ r.sock = "Packet")
                     THEN Tail(inWire) ELSE inWire
        /\ touched' = IF broken THEN touched ELSE touched + 1
  /\ sops' = sops + 1
  /\ UNCHANGED wbuf
  /\ UNCHANGED <<role, next_seq, request_rx, pending_requests, pending_responses,
                 result, sender_alive, handle_alive, futures, transport, outWire,
                 outSrc, dequeued, assigned, readLog, hcount, peerSent, term>>
  /\ UNCHANGED <<codecVars, pureVars, auxVars>>

\* Sink::poll_ready, start_send, poll_flush and poll_close, lines 75-99:
\* each asks get_pinned_inner and passes the call on when that succeeds.
SockSink(op) ==
  /\ sops < MaxSockOps
  /\ LET g == get_pinned_inner
         r == IF g # "Ok" THEN g ELSE inner_sink(op)
         written == r = "Ok" /\ op \in {"poll_flush", "poll_close"}
     IN /\ sop' = op
        /\ sres' = r
        /\ touched' = IF g = "Ok" THEN touched + 1 ELSE touched
        /\ wbuf' = IF g = "Ok" /\ op = "start_send" THEN Append(wbuf, SockItem)
                   ELSE IF written THEN <<>> ELSE wbuf
        /\ outWire' = IF written THEN outWire \o wbuf ELSE outWire
  /\ sops' = sops + 1
  /\ UNCHANGED <<role, next_seq, broken, request_rx, pending_requests,
                 pending_responses, result, sender_alive, handle_alive, futures,
                 inWire, transport, outSrc, dequeued, assigned, readLog, hcount,
                 peerSent, term>>
  /\ UNCHANGED <<codecVars, pureVars, auxVars>>

NextSocket ==
  \/ SockPollNext
  \/ \E op \in SinkOps : SockSink(op)
  \/ \E p \in PeerPackets(role) : PeerSend(p)
  \/ PeerClose
  \/ TransportError

SpecSocket == InitSocket /\ [][NextSocket]_vars

(***************************************************************************)
(* Socket properties.                                                      *)
(***************************************************************************)
\* C13: the broken flag is a one-way latch.  No step resets it, and once it
\* is set every poll_next returns end-of-stream and every sink operation
\* fails with Broken, without a call to the inner Framed and without a
\* change to what is on the transport.
C13_BrokenLatch ==
  [][ broken =>
        /\ broken'
        /\ sops' # sops =>
              /\ sop' = "poll_next" => sres' = "End"
              /\ sop' \in SinkOps => sres' = "Broken"
              /\ touched' = touched
              /\ inWire' = inWire
              /\ outWire' = outWire
              /\ wbuf' = wbuf
    ]_vars

\* The flag is set, the peer's next frame is on the transport, and a
\* poll_next has answered end-of-stream without taking it.
C13_Witness ==
  /\ broken
  /\ inWire # <<>>
  /\ transport = "open"
  /\ sop = "poll_next"
  /\ sres = "End"

\* C14: when an operation of the socket has returned a codec error or an
\* I/O error, on the read side or on the write side, the flag is set.
C14_AnyErrorBreaks ==
  sres \in {"Io", "Packet"} => broken

(***************************************************************************)
(* Connection properties.                                                  *)
(***************************************************************************)
Last(s) == s[Len(s)]

\* Positions of the request packets on the outbound wire.
RequestIdx == {i \in 1..Len(outWire) : kind(outWire[i].seq) = "Request"}

\* Callers whose request packet was written to the wire.
Written == {outSrc[i] : i \in RequestIdx}

\* The step is arm 1 taking the peer's next frame off the transport.
TakesFrame == inWire # <<>> /\ inWire' = Tail(inWire)

Fatal ==
  \/ result.err \in {"OriginMismatch", "InvalidSequence", "Handler"}
  \/ result.sock \in {"Io", "Packet", "Broken"}

\* C4: a caller's ResponseFuture that resolved with a response holds the
\* body of the response packet whose number is the number assigned to that
\* caller's request, whatever the order of the peer's replies.
C4_Correlation ==
  \A c \in Callers :
     futures[c].st = "ok" =>
        \E i \in 1..Len(readLog) :
           /\ number(readLog[i].seq) = assigned[c]
           /\ readLog[i].words = futures[c].body
           /\ \A j \in 1..Len(readLog) : number(readLog[j].seq) = assigned[c] => j >= i

\* Two requests outstanding, answered second first, both resolved with
\* their own (different) bodies.
C4_Witness ==
  /\ Len(readLog) = 2
  /\ assigned[1] = 0 /\ assigned[2] = 1
  /\ number(readLog[1].seq) = 1 /\ number(readLog[2].seq) = 0
  /\ futures[1] = [st |-> "ok", body |-> readLog[2].words]
  /\ futures[2] = [st |-> "ok", body |-> readLog[1].words]
  /\ readLog[1].words # readLog[2].words

\* C5: the k-th request packet written to the socket is the request of the
\* k-th dequeued envelope and carries kind Request, the connection's role as
\* origin and number k-1.
C5_RequestOrder ==
  \A i \in RequestIdx :
     LET k == Cardinality({j \in RequestIdx : j <= i})
     IN /\ outWire[i].seq =
             [client |-> role = "Client", respon |-> FALSE, number |-> k - 1]
        /\ k <= Len(dequeued)
        /\ outSrc[i] = dequeued[k]
        /\ outWire[i].words = RequestOf(dequeued[k])

\* Two requests were written, with a response written between them.
C5_Witness ==
  \E i, j \in RequestIdx :
     /\ i + 1 < j
     /\ number(outWire[j].seq) = 1

\* C6: when the socket reports clean EOF while the request channel is closed
\* and the in-flight set is empty, run() returns Ok(()).
C6_GracefulOk ==
  (result # Running /\ term.cause = "sock_eof" /\ term.closed /\ term.idle)
     => result = OkResult

\* C7: when the process terminates its pending table is dropped and the
\* caller of every request that was written and not answered observes
\* RequestCancelled; no future is left waiting and none receives a response
\* after termination.
C7_TerminationCancels ==
  [][ /\ result' # Running =>
           /\ pending_requests' = {}
           /\ \A c \in Callers : futures'[c].st # "waiting"
           /\ \A c \in Callers :
                 (c \in Written' /\ futures'[c].st # "ok") => futures'[c].st = "cancelled"
      /\ result # Running =>
           \A c \in Callers : futures'[c].st = "ok" => futures[c].st = "ok"
    ]_vars

\* The process is gone and a request that had been written was cancelled.
C7_Witness ==
  /\ result # Running
  /\ \E c \in Written : futures[c].st = "cancelled"
  /\ \E c \in Callers : futures[c].st = "ok"

\* C8: after the Connection handle was dropped, with the socket still open
\* and no failure of the transport, the codec, the protocol or the handler,
\* the process is still running.
C8_HandleDropKeepsRunning ==
  (~sender_alive /\ transport = "open" /\ result # Dropped /\ ~Fatal)
     => result = Running

\* C9: a response read from the socket whose origin differs from the
\* connection's role is the last packet the process reads, and the process
\* has terminated with OriginMismatch.
C9_OriginMismatch ==
  \A i \in 1..Len(readLog) :
     origin(readLog[i].seq) # role =>
        /\ i = Len(readLog)
        /\ result = Err("OriginMismatch")

\* A Client-role connection has read a response with the client bit clear.
C9_Witness ==
  /\ role = "Client"
  /\ readLog # <<>>
  /\ ~Last(readLog).seq.client
  /\ result = Err("OriginMismatch")

\* C10: the step that reads a response with matching origin whose number is
\* not a key of the pending table ends the process with InvalidSequence.
C10_UnknownSequence ==
  [][ (/\ result = Running
       /\ TakesFrame
       /\ DecodesWhole(Head(inWire))
       /\ kind(Head(inWire).seq) = "Response"
       /\ origin(Head(inWire).seq) = role
       /\ number(Head(inWire).seq) \notin {e.num : e \in pending_requests})
      => result' = Err("InvalidSequence")
    ]_vars

\* A Client-role connection that never sent a request has read a response
\* numbered 42.
C10_Witness ==
  /\ role = "Client"
  /\ outWire = <<>>
  /\ readLog # <<>>
  /\ Last(readLog).seq = [client |-> TRUE, respon |-> TRUE, number |-> 42]
  /\ result = Err("InvalidSequence")

(***************************************************************************)
(* Properties of request handling and of the callers' futures.             *)
(***************************************************************************)
\* The step is arm 1 taking a well-formed request frame off the transport.
TakesRequest ==
  /\ result = Running
  /\ TakesFrame
  /\ DecodesWhole(Head(inWire))
  /\ kind(Head(inWire).seq) = "Request"

\* The step appends a response packet to the outbound wire.
WritesResponse ==
  /\ outWire' # outWire
  /\ kind(Last(outWire').seq) = "Response"

\* C11: every inbound request starts exactly one handler future and nothing
\* else starts one; a response packet is written only by consuming one
\* successfully completed handler future, carries kind Response with the
\* origin bit and the number of that future's request and the handler's
\* body, and no handler future is answered twice; a completed future that
\* the process consumes and survives is written.
C11_OneResponsePerRequest ==
  [][ /\ TakesRequest =>
           /\ hcount' = hcount + 1
           /\ Cardinality(pending_responses') = Cardinality(pending_responses) + 1
           /\ \E h \in pending_responses' \ pending_responses :
                 /\ h.hid = hcount'
                 /\ h.seq = Head(inWire).seq
                 /\ h.st = "pending"
      /\ hcount' # hcount => TakesRequest
      /\ WritesResponse =>
           \E h \in pending_responses :
              /\ h.st = "ok"
              /\ h \notin pending_responses'
              /\ outWire' = Append(outWire,
                    [seq |-> [client |-> h.seq.client, respon |-> TRUE,
                              number |-> h.seq.number],
                     words |-> h.body])
              /\ Last(outSrc') = h.hid
              /\ \A i \in 1..Len(outWire) :
                    kind(outWire[i].seq) = "Response" => outSrc[i] # h.hid
      /\ \A h \in pending_responses :
           (h.st = "ok" /\ h \notin pending_responses' /\ result' = Running) =>
              (WritesResponse /\ Last(outSrc') = h.hid)
    ]_vars

\* A Client-role connection answered two requests: one carrying the server's
\* origin bit, one carrying its own.
C11_Witness ==
  /\ role = "Client"
  /\ hcount = 2
  /\ \E i, j \in 1..Len(outWire) :
        /\ outWire[i].seq = [client |-> FALSE, respon |-> TRUE, number |-> 1]
        /\ outWire[j].seq = [client |-> TRUE, respon |-> TRUE, number |-> 0]
        /\ outWire[i].words = <<W_OK>>

\* C12: when the peer runs this code with the default handler, the response
\* it writes to a pending request (the request's origin and number, the body
\* ["OK"]) is decoded without error and the requester's future resolves to
\* Ok with body ["OK"].
C12_DefaultHandlerOk ==
  [][ (/\ result = Running
       /\ TakesFrame
       /\ kind(Head(inWire).seq) = "Response"
       /\ origin(Head(inWire).seq) = role
       /\ Head(inWire).words \in HandlerBodies
       /\ number(Head(inWire).seq) \in {e.num : e \in pending_requests})
      => /\ result' = Running
         /\ \E e \in pending_requests :
               /\ e.num = number(Head(inWire).seq)
               /\ futures'[e.id] = [st |-> "ok", body |-> <<W_OK>>]
    ]_vars

\* The state a caller's future is in once it has resolved.
Resolved == {"ok", "cancelled", "failed"}

\* C20: a ResponseFuture resolves in one of three ways and no other.  It is
\* RequestFailed from the start exactly when the process, and with it the
\* receiving end of the channel, was gone at the call of send; otherwise the
\* envelope is enqueued and the future waits.  A waiting future turns Ok
\* only by a response delivered into its responder that step, and
\* RequestCancelled only on a step that dropped its responder.  A resolved
\* future never changes.
C20_FutureOutcomes ==
  [][ \A c \in Callers :
        /\ futures'[c].st \in {"unsent", "waiting"} \cup Resolved
        /\ (futures[c].st = "unsent" /\ futures'[c].st # "unsent") =>
              IF result # Running
              THEN futures'[c].st = "failed" /\ request_rx' = request_rx
              ELSE futures'[c].st = "waiting" /\ request_rx' = Append(request_rx, c)
        /\ (futures[c].st = "waiting" /\ futures'[c].st # "waiting") =>
              \/ /\ futures'[c].st = "ok"
                 /\ TakesFrame
                 /\ kind(Head(inWire).seq) = "Response"
                 /\ [num |-> number(Head(inWire).seq), id |-> c] \in pending_requests
                 /\ futures'[c].body = Head(inWire).words
              \/ /\ futures'[c].st = "cancelled"
                 /\ c \in HeldResponders
                 /\ c \notin HeldResponders'
        /\ futures[c].st \in Resolved => futures'[c] = futures[c]
    ]_vars

\* One caller's future was answered, the other called send after the
\* process had gone and holds RequestFailed.
C20_Witness ==
  /\ futures[1].st = "ok"
  /\ futures[2].st = "failed"
  /\ result # Running

(***************************************************************************)
(* Properties of resolution, termination and origin handling.              *)
(***************************************************************************)
\* C21: a caller's future resolves at most once, and it resolves with a
\* response only on the step in which the process reads a response packet
\* whose number is the number assigned to that caller's request, the
\* request packet having been written before.
C21_ResolveAfterRead ==
  [][ \A c \in Callers :
        /\ futures[c].st \in Resolved => futures'[c] = futures[c]
        /\ (futures'[c].st = "ok" /\ futures[c].st # "ok") =>
              /\ futures[c].st = "waiting"
              /\ c \in Written
              /\ TakesFrame
              /\ Head(inWire).seq.respon
              /\ Head(inWire).seq.number = assigned[c]
              /\ readLog' = Append(readLog, Head(inWire))
              /\ futures'[c].body = Head(inWire).words
    ]_vars

\* The second request was answered while the first still waits.
C21_Witness ==
  /\ result = Running
  /\ futures[1].st = "waiting"
  /\ futures[2].st = "ok"
  /\ assigned[2] = 1
  /\ Last(readLog).seq.number = 1

\* Handler futures that are ready to be yielded by arm 3.
Completed == {h \in pending_responses : h.st # "pending"}

\* C26: the step in which the process meets a socket I/O error (reading or
\* writing), a codec error on an inbound packet, a response of the wrong
\* origin, a response with an unknown number or a handler future that
\* resolved to an error ends run() with that error; the ending step writes
\* nothing and invokes no handler; once run() has ended nothing is read or
\* written, no handler is invoked, no handler future is left and the result
\* that finish() yields stays that error.
C26_FirstErrorTerminates ==
  [][ /\ (RunIncoming /\ transport = "failed") => result' = ErrSocket("Io", "")
      /\ (RunIncoming /\ transport # "failed" /\ inWire # <<>>
             /\ ~DecodesWhole(Head(inWire))) =>
            /\ result'.st = "Err"
            /\ result'.sock = "Packet"
            /\ result'.pkt # ""
      /\ (RunIncoming /\ transport # "failed" /\ inWire # <<>>
             /\ DecodesWhole(Head(inWire))
             /\ kind(Head(inWire).seq) = "Response") =>
            IF origin(Head(inWire).seq) # role
            THEN result' = Err("OriginMismatch")
            ELSE IF number(Head(inWire).seq) \notin {e.num : e \in pending_requests}
            THEN result' = Err("InvalidSequence")
            ELSE result' = Running
      /\ (RunOutgoingRequest /\ request_rx # <<>> /\ transport = "failed"
             /\ next_seq < SEQ_NUMBER_LIMIT) => result' = ErrSocket("Io", "")
      /\ (RunOutgoingResponse /\ \A h \in Completed : h.st = "err") =>
            result' = Err("Handler")
      /\ (RunOutgoingResponse /\ transport = "failed"
             /\ \A h \in Completed : h.st = "ok") => result' = ErrSocket("Io", "")
      /\ (result = Running /\ result'.st = "Err") =>
            /\ outWire' = outWire
            /\ hcount' = hcount
            /\ pending_responses' = {}
      /\ result # Running =>
            /\ result' = result
            /\ outWire' = outWire
            /\ inWire' = inWire
            /\ readLog' = readLog
            /\ hcount' = hcount
            /\ pending_responses' = {}
    ]_vars

\* A handler's error ended the process with a frame of the peer left unread
\* and a request of a caller left unwritten.
C26_Witness ==
  /\ result = Err("Handler")
  /\ inWire # <<>>
  /\ hcount = 1
  /\ futures[1].st = "cancelled"
  /\ outWire = <<>>

\* C27: a request read from the socket starts a handler future for it and
\* leaves the process running whatever its origin bit is, the connection's
\* own role included; the process ends with OriginMismatch only in a step
\* that reads a response whose origin differs from the role.
C27_RequestOriginUnchecked ==
  [][ /\ TakesRequest =>
            /\ result' = Running
            /\ hcount' = hcount + 1
            /\ pending_responses' = pending_responses \cup
                  {[hid |-> hcount + 1, seq |-> Head(inWire).seq, st |-> "pending",
                    body |-> <<>>]}
      /\ (result = Running /\ result' = Err("OriginMismatch")) =>
            /\ TakesFrame
            /\ kind(Head(inWire).seq) = "Response"
            /\ origin(Head(inWire).seq) # role
    ]_vars

\* A Client-role connection runs a handler for a request that carries the
\* client origin bit.
C27_Witness ==
  /\ role = "Client"
  /\ result = Running
  /\ \E h \in pending_responses :
        /\ origin(h.seq) = "Client"
        /\ kind(h.seq) = "Request"
        /\ h.st = "pending"

\* Numbers of the request packets written to the wire.
WrittenNumbers == {number(outWire[i].seq) : i \in RequestIdx}

\* Numbers of the response packets the socket has yielded.
AnsweredNumbers == {number(readLog[i].seq) : i \in 1..Len(readLog)}

\* C36: while the process runs, the keys of the pending table are pairwise
\* distinct, each is below next_seq, and they are exactly the numbers of the
\* request packets written for which no response packet has been read; the
\* table of a process that has ended is gone.
C36_PendingTable ==
  IF result = Running
  THEN /\ \A e, f \in pending_requests : e.num = f.num => e = f
       /\ \A e \in pending_requests : e.num < next_seq /\ e.num >= 0
       /\ {e.num : e \in pending_requests} = WrittenNumbers \ AnsweredNumbers
       /\ \A e \in pending_requests : assigned[e.id] = e.num
  ELSE pending_requests = {}

\* Two requests were written and the first has been answered: the table
\* holds the second alone.
C36_Witness ==
  /\ result = Running
  /\ next_seq = 2
  /\ pending_requests = {[num |-> 1, id |-> 2]}
  /\ WrittenNumbers = {0, 1}
  /\ AnsweredNumbers = {0}

\* C37: the step that reads a response of matching origin whose number was
\* written and has already been answered ends the process with
\* InvalidSequence; the caller of that number stays resolved with the body
\* of the first response, and no resolved future ever changes.
C37_DuplicateResponse ==
  [][ /\ (/\ result = Running
          /\ TakesFrame
          /\ DecodesWhole(Head(inWire))
          /\ kind(Head(inWire).seq) = "Response"
          /\ origin(Head(inWire).seq) = role
          /\ number(Head(inWire).seq) \in WrittenNumbers \cap AnsweredNumbers) =>
            /\ result' = Err("InvalidSequence")
            /\ \A c \in Callers :
                  assigned[c] = number(Head(inWire).seq) =>
                     /\ futures[c].st = "ok"
                     /\ futures'[c] = futures[c]
                     /\ \E i \in 1..Len(readLog) :
                           /\ number(readLog[i].seq) = assigned[c]
                           /\ futures[c].body = readLog[i].words
      /\ \A c \in Callers : futures[c].st = "ok" => futures'[c] = futures[c]
    ]_vars

\* The peer answered request 0 with "hello" and then again with "world":
\* the caller holds "hello" and the process has ended.
C37_Witness ==
  /\ result = Err("InvalidSequence")
  /\ Len(readLog) = 2
  /\ number(readLog[1].seq) = 0
  /\ number(readLog[2].seq) = 0
  /\ readLog[1].words = <<W_hello>>
  /\ readLog[2].words = <<W_world>>
  /\ futures[1] = [st |-> "ok", body |-> <<W_hello>>]

\* C38: once the process has ended no caller's future is waiting: the step
\* that ends it cancels every request still queued on the channel, dequeued
\* or not, and a request submitted afterwards fails at once, is not queued
\* and puts no packet on the wire.
C38_NoCallerLeftWaiting ==
  [][ /\ result' # Running => \A c \in Callers : futures'[c].st # "waiting"
      /\ (result = Running /\ result' # Running) =>
            \A i \in 1..Len(request_rx) :
               futures[request_rx[i]].st = "waiting" =>
                  futures'[request_rx[i]] = [st |-> "cancelled", body |-> <<>>]
      /\ \A c \in Callers :
            (result # Running /\ futures[c].st = "unsent" /\ futures'[c] # futures[c]) =>
               /\ futures'[c] = [st |-> "failed", body |-> <<>>]
               /\ request_rx' = request_rx
               /\ outWire' = outWire
               /\ assigned'[c] = -1
    ]_vars

\* The process ended with the first caller's request queued and never
\* dequeued; the second caller submitted afterwards.
C38_Witness ==
  /\ result # Running
  /\ futures[1].st = "cancelled"
  /\ assigned[1] = -1
  /\ futures[2].st = "failed"
  /\ dequeued = <<>>
  /\ outWire = <<>>

(***************************************************************************)
(* The connection late in its life: 2^30 - 1 requests have been sent and   *)
(* answered, so the counter stands at the last number that fits and the    *)
(* pending table is empty again.  The logs start at this point.            *)
(***************************************************************************)
InitLate ==
  /\ role = "Client"
  /\ next_seq = SEQ_NUMBER_LIMIT - 1
  /\ broken = FALSE
  /\ request_rx = <<>>
  /\ pending_requests = {}
  /\ pending_responses = {}
  /\ result = Running
  /\ sender_alive = TRUE
  /\ handle_alive = TRUE
  /\ futures = [c \in Callers |-> Unsent]
  /\ inWire = <<>>
  /\ transport = "open"
  /\ outWire = <<>>
  /\ outSrc = <<>>
  /\ dequeued = <<>>
  /\ assigned = [c \in Callers |-> -1]
  /\ readLog = <<>>
  /\ hcount = 0
  /\ peerSent = 0
  /\ term = NoTerm
  /\ CodecIdle
  /\ SockIdle
  /\ AuxIdle
  /\ PureIdle

SpecLate == InitLate /\ [][Next]_vars

\* The step dequeues an outbound request.
Dequeues == dequeued' # dequeued

\* C22: each dequeued outbound request advances the counter by one; a
\* request dequeued while the counter equals 2^30 ends the process with
\* InvalidSequence and no packet is written for it; every request packet
\* on the wire has a number below 2^30 and no two share a number.
C22_SequenceExhaustion ==
  [][ /\ Dequeues => next_seq' = next_seq + 1
      /\ next_seq' # next_seq => Dequeues
      /\ (Dequeues /\ next_seq >= 1073741824) =>
            /\ result' = Err("InvalidSequence")
            /\ outWire' = outWire
      /\ \A i \in RequestIdx' :
            /\ outWire'[i].seq.number < 1073741824
            /\ to_raw(outWire'[i].seq)[4] = (IF role = "Client" THEN 128 ELSE 0)
                                             + outWire'[i].seq.number \div 16777216
            /\ \A j \in RequestIdx' : outWire'[j].seq.number = outWire'[i].seq.number => j = i
    ]_vars

\* Number 2^30 - 1 went out; the next request found the counter at 2^30 and
\* the process ended with InvalidSequence without writing it.
C22_Witness ==
  /\ result = Err("InvalidSequence")
  /\ readLog = <<>>
  /\ Len(dequeued) = 2
  /\ Cardinality(RequestIdx) = 1
  /\ \E i \in RequestIdx : outWire[i].seq.number = 1073741823
  /\ futures[dequeued[2]].st = "cancelled"

(***************************************************************************)
(* The connection with callers that go through Connection::exec and with   *)
(* a handler that answers with bodies of any size.                         *)
(***************************************************************************)
\* Body::new, body.rs lines 18-31: the words are converted in order and the
\* first conversion that fails is the error.
RECURSIVE Body_new(_)
Body_new(words) ==
  IF words = <<>> THEN [ok |-> TRUE, err |-> "", char |-> 0, content |-> <<>>]
  ELSE LET w == from_bytes(Head(words))
       IN IF ~w.ok
          THEN [ok |-> FALSE, err |-> w.err, char |-> w.char, content |-> <<>>]
          ELSE LET rest == Body_new(Tail(words))
               IN IF rest.ok
                  THEN [rest EXCEPT !.content = <<w.word>> \o rest.content]
                  ELSE rest

\* Commands caller c passes to exec: its request and word lists holding a
\* NUL byte or a byte above 127.
ExecCommands(c) ==
  {RequestOf(c), <<W_version, W_bad0>>, <<W_hello, W_bad200, W_bad0>>}

\* A body a handler may answer with: 257 words of one byte.
BulkBodies == {[i \in 1..(PACKET_MAX_WORDS + 1) |-> <<97>>]}

PeerRequests(r) == {p \in PeerPackets(r) : ~p.seq.respon}

\* Faulty variant of Exec: the request is enqueued although the command was
\* refused.
Exec_unvalidated(c, cmd) ==
  /\ sender_alive
  /\ futures[c].st = "unsent"
  /\ \A e \in Callers : e < c => futures[e].st # "unsent"
  /\ LET body == Body_new(cmd)
     IN IF ~body.ok
        THEN /\ execRes' = [c |-> c, cmd |-> cmd, err |-> body.err, char |-> body.char]
             /\ request_rx' = Append(request_rx, c)
             /\ UNCHANGED <<role, next_seq, broken, pending_requests, pending_responses,
                            result, sender_alive, handle_alive, futures, inWire,
                            transport, outWire, outSrc, dequeued, assigned, readLog,
                            hcount, peerSent, term>>
             /\ UNCHANGED <<codecVars, sockVars, pureVars, writeVars>>
        ELSE /\ body.content = RequestOf(c)
             /\ Send(c)

\* Connection::exec, connection.rs lines 25-33: command.try_into()? returns
\* the body error to the caller before send_request is reached.
Exec(c, cmd) ==
  /\ sender_alive
  /\ futures[c].st = "unsent"
  /\ \A e \in Callers : e < c => futures[e].st # "unsent"
  /\ LET body == Body_new(cmd)
     IN IF ~body.ok
        THEN /\ execRes' = [c |-> c, cmd |-> cmd, err |-> body.err, char |-> body.char]
             /\ UNCHANGED connVars
             /\ UNCHANGED <<codecVars, sockVars, pureVars, writeVars>>
        ELSE /\ body.content = RequestOf(c)
             /\ Send(c)

NextEdge ==
  \/ \E c \in Callers : \E cmd \in ExecCommands(c) : Exec(c, cmd)
  \/ RunIncoming
  \/ RunOutgoingRequest
  \/ RunOutgoingResponse
  \/ \E h \in pending_responses, ok \in BOOLEAN, body \in HandlerBodies \cup BulkBodies :
       HandlerComplete(h, ok, body)
  \/ \E p \in PeerRequests(role) : PeerSend(p)

SpecEdge == InitSocket /\ [][NextEdge]_vars

\* C23: every packet the process has written to the socket has at most 256
\* words and a total wire size of at most 16384 bytes.
C23_WireLimits ==
  \A i \in 1..Len(outWire) :
     /\ Len(outWire[i].words) <= 256
     /\ byte_size(outWire[i]) <= 16384

\* The bytes of a command, word after word.
CmdBytes(cmd) == Flatten(cmd)

\* C24: an exec whose word list holds an invalid byte returns
\* InvalidWordChar, naming the first such byte, and changes nothing of the
\* connection: nothing is enqueued, no sequence number is taken, no packet
\* is written, the pending table and the process's result stay as they were.
C24_ExecInvalidWord ==
  [][ execRes' # execRes =>
        /\ execRes'.err = "InvalidWordChar"
        /\ \E i \in 1..Len(CmdBytes(execRes'.cmd)) :
              /\ CmdBytes(execRes'.cmd)[i] \notin 1..127
              /\ \A j \in 1..(i - 1) : CmdBytes(execRes'.cmd)[j] \in 1..127
              /\ execRes'.char = CmdBytes(execRes'.cmd)[i]
        /\ request_rx' = request_rx
        /\ next_seq' = next_seq
        /\ outWire' = outWire
        /\ pending_requests' = pending_requests
        /\ futures' = futures
        /\ result' = result
    ]_vars

\* While the process runs with a request on the wire, the next caller's
\* exec was refused for the byte 200.
C24_Witness ==
  /\ execRes.err = "InvalidWordChar"
  /\ execRes.char = 200
  /\ execRes.c = 2
  /\ futures[2].st = "unsent"
  /\ result = Running
  /\ Cardinality(RequestIdx) = 1

(***************************************************************************)
(* run() at the grain of its await points (connection.rs lines 198-252).   *)
(* Each arm body runs inside the one future of run(): while                *)
(* `self.sock.send(packet).await` is pending, select! is not polled.  A    *)
(* send is SinkExt::send, that is start_send followed by a flush which     *)
(* hands the encoded packet to the transport in pieces.                    *)
(***************************************************************************)
MaxPieces == 2

\* Faulty variant of InSelect: the arms are polled while a send is pending.
InSelect_always == TRUE

\* run() is suspended in select!, not inside the body of an arm.
InSelect == pc = "select"

\* Faulty variant of after_request: the handler future is awaited inline.
after_request_inline == "handler"

\* Where run() is once handle_incoming_packet has pushed the handler future
\* of a request (lines 174-180): it returns Ok(()) and the loop selects again.
after_request == "select"

\* Arm 1 with its body.
WIncoming ==
  /\ result = Running
  /\ InSelect
  /\ LET r == poll_next
     IN /\ r.tag # "Pending"
        /\ IF r.tag = "Item"
           THEN /\ handle_incoming_packet(r.packet)
                /\ inWire' = Tail(inWire)
                /\ readLog' = IF kind(r.packet.seq) = "Response"
                              THEN Append(readLog, r.packet) ELSE readLog
                /\ pc' = IF kind(r.packet.seq) = "Request" THEN after_request
                         ELSE "select"
                /\ UNCHANGED broken
           ELSE IF r.tag = "Err"
           THEN /\ Terminate(ErrSocket(r.sock, r.pkt), "error")
                /\ broken' = TRUE
                /\ inWire' = IF r.sock = "Packet" THEN Tail(inWire) ELSE inWire
                /\ UNCHANGED <<readLog, hcount, pc>>
           ELSE /\ Terminate(ErrSocket("Closed", ""), "sock_eof")
                /\ UNCHANGED <<broken, inWire, readLog, hcount, pc>>
  /\ UNCHANGED <<role, next_seq, sender_alive, handle_alive, transport, outWire,
                 outSrc, dequeued, assigned, peerSent>>
  /\ UNCHANGED <<cur, wire, yielded>>
  /\ UNCHANGED <<codecVars, sockVars, pureVars, execVars>>

\* Faulty variant of WSelectRequest: the responder is inserted before the send.
WSelectRequest_eager ==
  /\ result = Running
  /\ InSelect
  /\ IF request_rx # <<>>
     THEN LET c == Head(request_rx)
              seq_num == next_seq
              seq == PacketSequence_new("Request", role, seq_num)
              packet == [seq |-> seq.seq, words |-> RequestOf(c)]
          IN /\ next_seq' = advance(next_seq)
             /\ assigned' = [assigned EXCEPT ![c] = seq_num]
             /\ dequeued' = Append(dequeued, c)
             /\ IF ~seq.ok
                THEN /\ Terminate(Err("InvalidSequence"), "error")
                     /\ UNCHANGED <<pc, cur>>
                ELSE /\ pc' = "send"
                     /\ cur' = [packet |-> packet, src |-> c, left |-> MaxPieces]
                     /\ pending_requests' = insert(pending_requests, seq_num, c)
                     /\ UNCHANGED <<result, term, futures, pending_responses,
                                    request_rx>>
     ELSE /\ ~sender_alive
          /\ Terminate(ErrSocket("Closed", ""), "chan_closed")
          /\ UNCHANGED <<next_seq, assigned, dequeued, pc, cur>>
  /\ UNCHANGED <<role, broken, sender_alive, handle_alive, inWire, transport,
                 outWire, outSrc, readLog, hcount, peerSent>>
  /\ UNCHANGED <<wire, yielded>>
  /\ UNCHANGED <<codecVars, sockVars, pureVars, execVars>>

\* Arm 2 up to the await of the send (lines 203-211).  The envelope stays at
\* the head of request_rx, its responder owned by the process, until the
\* send has completed.
WSelectRequest ==
  /\ result = Running
  /\ InSelect
  /\ IF request_rx # <<>>
     THEN LET c == Head(request_rx)
              seq_num == next_seq
              seq == PacketSequence_new("Request", role, seq_num)
              packet == [seq |-> seq.seq, words |-> RequestOf(c)]
          IN /\ next_seq' = advance(next_seq)
             /\ assigned' = [assigned EXCEPT ![c] = seq_num]
             /\ dequeued' = Append(dequeued, c)
             /\ IF ~seq.ok
                THEN /\ Terminate(Err("InvalidSequence"), "error")
                     /\ UNCHANGED <<pc, cur>>
                ELSE /\ pc' = "send"
                     /\ cur' = [packet |-> packet, src |-> c, left |-> MaxPieces]
                     /\ UNCHANGED <<result, term, futures, pending_requests,
                                    pending_responses, request_rx>>
     ELSE /\ ~sender_alive
          /\ Terminate(ErrSocket("Closed", ""), "chan_closed")
          /\ UNCHANGED <<next_seq, assigned, dequeued, pc, cur>>
  /\ UNCHANGED <<role, broken, sender_alive, handle_alive, inWire, transport,
                 outWire, outSrc, readLog, hcount, peerSent>>
  /\ UNCHANGED <<wire, yielded>>
  /\ UNCHANGED <<codecVars, sockVars, pureVars, execVars>>

\* Arm 3 up to the await of the send (lines 245-247 and 221-231):
\* pending_responses.next() polls a handler future that is ready and yields
\* its output.
WSelectResponse ==
  /\ result = Running
  /\ InSelect
  /\ \E h \in pending_responses :
       /\ h.st # "pending"
       /\ yielded' = Append(yielded, h.hid)
       /\ IF h.st = "err"
          THEN /\ Terminate(Err("Handler"), "error")
               /\ UNCHANGED <<pc, cur>>
          ELSE LET response_seq ==
                     PacketSequence_new("Response", origin(h.seq), number(h.seq))
                   response_packet == [seq |-> response_seq.seq, words |-> h.body]
               IN IF ~response_seq.ok
                  THEN /\ Terminate(Err("InvalidSequence"), "error")
                       /\ UNCHANGED <<pc, cur>>
                  ELSE /\ pc' = "send"
                       /\ cur' = [packet |-> response_packet, src |-> h.hid,
                                  left |-> MaxPieces]
                       /\ pending_responses' = pending_responses \ {h}
                       /\ UNCHANGED <<result, term, futures, pending_requests,
                                      request_rx>>
  /\ UNCHANGED <<role, next_seq, broken, sender_alive, handle_alive, inWire,
                 transport, outWire, outSrc, dequeued, assigned, readLog, hcount,
                 peerSent>>
  /\ UNCHANGED wire
  /\ UNCHANGED <<codecVars, sockVars, pureVars, execVars>>

\* The pending send makes progress: one more piece of the packet reaches the
\* transport, or the sink fails.  With the last piece the send completes,
\* the rest of the arm body runs (line 213 for a request) and run() loops
\* back to select!.
WFlush ==
  /\ result = Running
  /\ pc = "send"
  /\ IF send # "Ok"
     THEN /\ Terminate(ErrSocket(send, ""), "error")
          /\ UNCHANGED <<outWire, outSrc, pc, cur, wire>>
     ELSE /\ wire' = Append(wire, [src |-> cur.src, kind |-> kind(cur.packet.seq),
                                   part |-> MaxPieces - cur.left + 1])
          /\ IF cur.left > 1
             THEN /\ cur' = [cur EXCEPT !.left = @ - 1]
                  /\ UNCHANGED <<outWire, outSrc, pc, pending_requests, request_rx>>
             ELSE /\ outWire' = Append(outWire, cur.packet)
                  /\ outSrc' = Append(outSrc, cur.src)
                  /\ pc' = "select"
                  /\ cur' = NoSend
                  /\ IF kind(cur.packet.seq) = "Request"
                     THEN /\ pending_requests' =
                               insert(pending_requests, number(cur.packet.seq), cur.src)
                          /\ request_rx' = Tail(request_rx)
                     ELSE UNCHANGED <<pending_requests, request_rx>>
          /\ UNCHANGED <<result, term, futures, pending_responses>>
  /\ UNCHANGED <<role, next_seq, broken, sender_alive, handle_alive, inWire,
                 transport, dequeued, assigned, readLog, hcount, peerSent>>
  /\ UNCHANGED yielded
  /\ UNCHANGED <<codecVars, sockVars, pureVars, execVars>>

NextWrite ==
  \/ WIncoming
  \/ WSelectRequest
  \/ WSelectResponse
  \/ WFlush
  \/ \E h \in pending_responses, ok \in BOOLEAN, body \in HandlerBodies :
       HandlerComplete(h, ok, body)
  \/ \E c \in Callers : Send(c)
  \/ \E p \in PeerPackets(role) : PeerSend(p)
  \/ TransportError

SpecWrite == InitSocket /\ [][NextWrite]_vars

(***************************************************************************)
(* Properties of the run loop at its await points.                         *)
(***************************************************************************)
\* Every piece on the transport continues the packet of the piece before it
\* or starts a packet, and only the last packet may be incomplete.
WireWhole ==
  \A i \in 1..Len(wire) :
     /\ wire[i].part \in 1..MaxPieces
     /\ wire[i].part > 1 =>
          /\ i > 1
          /\ wire[i - 1].src = wire[i].src
          /\ wire[i - 1].kind = wire[i].kind
          /\ wire[i - 1].part = wire[i].part - 1
     /\ (wire[i].part < MaxPieces /\ i < Len(wire)) => wire[i + 1].part > 1

\* C28: a send is started only from select!, with no other send pending;
\* while a send is pending the process dequeues no request, yields no
\* handler future, reads nothing and starts no other send, so the pieces of
\* two packets never interleave on the transport; the packets completed are
\* exactly the whole packets on the transport, in order.
C28_AtomicWrites ==
  [][ /\ (cur' # cur /\ cur' # NoSend /\ cur'.left = MaxPieces) =>
            (pc = "select" /\ cur = NoSend /\ pc' = "send")
      /\ pc = "send" =>
            /\ cur # NoSend
            /\ dequeued' = dequeued
            /\ yielded' = yielded
            /\ (inWire' = inWire \/ Len(inWire') > Len(inWire))
            /\ readLog' = readLog
            /\ hcount' = hcount
            /\ \/ cur' = cur
               \/ cur' = [cur EXCEPT !.left = @ - 1]
               \/ cur' = NoSend /\ cur.left = 1 /\ outWire' = Append(outWire, cur.packet)
      /\ WireWhole'
      /\ Len(wire') = MaxPieces * Len(outWire') + (IF cur' = NoSend THEN 0
                                                  ELSE MaxPieces - cur'.left)
      /\ \A i \in 1..Len(outWire') :
            /\ wire'[MaxPieces * i].src = outSrc'[i]
            /\ wire'[MaxPieces * i].kind = kind(outWire'[i].seq)
    ]_vars

\* A response is half written while a caller's request waits in the channel
\* and another handler future is ready.
C28_Witness ==
  /\ result = Running
  /\ pc = "send"
  /\ kind(cur.packet.seq) = "Response"
  /\ cur.left < MaxPieces
  /\ request_rx # <<>>
  /\ \E h \in pending_responses : h.st = "ok"
  /\ wire # <<>>

\* Sources of the response packets written so far, in wire order.
ResponsesWritten ==
  LET idx == {i \in 1..Len(outWire) : kind(outWire[i].seq) = "Response"}
      Nth(n) == CHOOSE i \in idx : Cardinality({j \in idx : j < i}) = n - 1
  IN [n \in 1..Cardinality(idx) |-> outSrc[Nth(n)]]

\* C29: reading a request pushes its handler future and returns to select!
\* without waiting for it; with handler futures still incomplete the
\* process, unless it is inside a send, is in select!, where it can dequeue
\* the next outbound request and yield a handler future that is ready;
\* response packets are written in the order the handler futures resolved,
\* each with the origin and the number of its own request and the handler's
\* body.
C29_HandlersNotInline ==
  [][ /\ TakesRequest => (pc' = "select" /\ result' = Running)
      /\ (result = Running /\ pc # "send"
            /\ \E h \in pending_responses : h.st = "pending") =>
            /\ pc = "select"
            /\ request_rx # <<>> => ENABLED WSelectRequest
            /\ (\E h \in pending_responses : h.st # "pending") => ENABLED WSelectResponse
      /\ \A h \in pending_responses :
            (h.st # "pending" /\ h \notin pending_responses' /\ result' = Running) =>
               /\ h.st = "ok"
               /\ yielded' = Append(yielded, h.hid)
               /\ cur'.src = h.hid
               /\ cur'.packet = [seq |-> [client |-> h.seq.client, respon |-> TRUE,
                                          number |-> h.seq.number],
                                 words |-> h.body]
      /\ \A n \in 1..Len(ResponsesWritten') : ResponsesWritten'[n] = yielded'[n]
      /\ Len(yielded') - Len(ResponsesWritten') \in {0, 1}
    ]_vars

\* The second inbound request has been read and answered, and a caller's
\* request written, while the handler future of the first is still incomplete.
C29_Witness ==
  /\ result = Running
  /\ \E h \in pending_responses :
        /\ h.hid = 1
        /\ h.st = "pending"
        /\ number(h.seq) = 0
  /\ Len(outWire) = 2
  /\ \E i \in 1..2 :
        /\ kind(outWire[i].seq) = "Response"
        /\ number(outWire[i].seq) = 1
        /\ outSrc[i] = 2
  /\ \E i \in 1..2 : kind(outWire[i].seq) = "Request"

\* C33: an entry enters the pending table only in the step that completes
\* the send of its request packet, under that packet's number and for its
\* caller; an entry leaves the table only when the response with its number
\* is read or the process ends; a send of a request that fails ends the
\* process with the socket's error, nothing is inserted and the caller's
\* future resolves to RequestCancelled.
C33_InsertAfterSend ==
  [][ /\ \A e \in pending_requests' \ pending_requests :
            /\ result = Running
            /\ pc = "send"
            /\ cur.left = 1
            /\ send = "Ok"
            /\ kind(cur.packet.seq) = "Request"
            /\ e = [num |-> number(cur.packet.seq), id |-> cur.src]
            /\ outWire' = Append(outWire, cur.packet)
            /\ Len(wire') = MaxPieces * Len(outWire')
      /\ \A e \in pending_requests \ pending_requests' :
            \/ result' # Running
            \/ /\ TakesFrame
               /\ kind(Head(inWire).seq) = "Response"
               /\ origin(Head(inWire).seq) = role
               /\ number(Head(inWire).seq) = e.num
      /\ (WFlush /\ send # "Ok" /\ kind(cur.packet.seq) = "Request") =>
            /\ result' = ErrSocket(send, "")
            /\ pending_requests' = {}
            /\ outWire' = outWire
            /\ futures[cur.src].st = "waiting" => futures'[cur.src].st = "cancelled"
    ]_vars

\* The transport failed with a request half written: the process ended
\* with the I/O error and the caller's future was cancelled.
C33_Witness ==
  /\ result = ErrSocket("Io", "")
  /\ pc = "send"
  /\ kind(cur.packet.seq) = "Request"
  /\ cur.left < MaxPieces
  /\ futures[cur.src].st = "cancelled"
  /\ assigned[cur.src] = number(cur.packet.seq)
  /\ outWire = <<>>

(***************************************************************************)
(* The connection with callers that give up: a ResponseFuture may be       *)
(* dropped while it waits, which drops its oneshot receiver                *)
(* (respondable.rs lines 64-66).                                           *)
(***************************************************************************)
DroppedFuture == [st |-> "dropped", body |-> <<>>]

\* Caller c drops its ResponseFuture before it has resolved.
DropFuture(c) ==
  /\ futures[c].st = "waiting"
  /\ futures' = [futures EXCEPT ![c] = DroppedFuture]
  /\ UNCHANGED <<role, next_seq, broken, request_rx, pending_requests,
                 pending_responses, result, sender_alive, handle_alive, inWire,
                 transport, outWire, outSrc, dequeued, assigned, readLog, hcount,
                 peerSent, term>>
  /\ UNCHANGED <<codecVars, sockVars, pureVars, auxVars>>

NextDrop ==
  \/ RunIncoming
  \/ RunOutgoingRequest
  \/ RunOutgoingResponse
  \/ \E h \in pending_responses, ok \in BOOLEAN, body \in HandlerBodies :
       HandlerComplete(h, ok, body)
  \/ \E c \in Callers : Send(c)
  \/ \E c \in Callers : DropFuture(c)
  \/ \E p \in PeerPackets(role) : PeerSend(p)

SpecDrop == InitSocket /\ [][NextDrop]_vars

\* C32: the step that reads the response matching a pending request whose
\* caller has dropped its ResponseFuture removes that entry from the pending
\* table, resolves no future and leaves the process running.
C32_DroppedFuture ==
  [][ \A e \in pending_requests :
        (/\ result = Running
         /\ TakesFrame
         /\ DecodesWhole(Head(inWire))
         /\ kind(Head(inWire).seq) = "Response"
         /\ origin(Head(inWire).seq) = role
         /\ number(Head(inWire).seq) = e.num
         /\ futures[e.id] = DroppedFuture) =>
           /\ result' = Running
           /\ pending_requests' = pending_requests \ {e}
           /\ futures' = futures
           /\ readLog' = Append(readLog, Head(inWire))
    ]_vars

\* The response to a dropped future was read and discarded, and afterwards
\* the next caller's request was written and answered.
C32_Witness ==
  /\ result = Running
  /\ futures[1] = DroppedFuture
  /\ assigned[1] = 0
  /\ Len(readLog) = 2
  /\ number(readLog[1].seq) = 0
  /\ number(readLog[2].seq) = 1
  /\ futures[2].st = "ok"
  /\ pending_requests = {}

====
